---- MODULE Spec2Model ----
(***************************************************************************)
(* Model of the ReAct agent orchestrator of ReACTor-SQL                    *)
(* (src/services/llmService.ts): the runAgent loop, the streaming parser,  *)
(* the manual tool-call rescue, the tool dispatcher and the compression    *)
(* accumulator.  Text is modelled by real strings (character sequences),   *)
(* so that regular-expression matching, JSON encoding and JSON parsing are *)
(* computed, not assumed.                                                  *)
(***************************************************************************)
EXTENDS Integers, Sequences, FiniteSets, TLC

(***************************************************************************)
(* Bounds of the model (not program constants).                            *)
(***************************************************************************)
\* Number of stream deltas an unscripted model may emit in one session.
MaxDeltas == 2
\* Row count of the large result set the query engine may return.
MaxRows == 6
\* largest result set given to the batch sizer on its own
MaxSample == 2
\* most identifier tokens in the clause body of a query given to the sanitizer on its own
MaxTokens == 2
\* most rows of a result set given to run_sql on its own
MaxBatchRows == 11

(***************************************************************************)
(* Program constants.                                                      *)
(***************************************************************************)
MAX_ITERATIONS == 50
B_MIN == 5
B_MAX == 100
F_NORM == 40
L_NORM == 4000
SAMPLE_LIMIT == 20
DEFAULT_BATCH == 10
PREVIEW_ROWS == 50

(***************************************************************************)
(* String helpers (JavaScript String methods used by the source).          *)
(***************************************************************************)
\* s.substr(i, n) with 1-based i, clipped at the end of s.
Sub(s, i, n) == SubSeq(s, i, IF i + n - 1 > Len(s) THEN Len(s) ELSE i + n - 1)

\* character of s at 1-based position i ("" beyond the end)
CharAt(s, i) == IF i >= 1 /\ i <= Len(s) THEN SubSeq(s, i, i) ELSE ""

\* s.startsWith(p, i-1)
StartsWithAt(s, i, p) == i >= 1 /\ i + Len(p) - 1 <= Len(s) /\ SubSeq(s, i, i + Len(p) - 1) = p

\* s.includes(p)
Includes(s, p) == \E i \in 1..(Len(s) + 1) : StartsWithAt(s, i, p)

\* \s of a JavaScript regular expression, for the characters the model uses
IsSpace(c) == c \in {" ", "\n", "\t"}

\* position after the longest run of white space starting at i  (\s*)
RECURSIVE SkipSpace(_, _)
SkipSpace(s, i) == IF IsSpace(CharAt(s, i)) THEN SkipSpace(s, i + 1) ELSE i

\* s.replace(new RegExp(p, 'g'), '') for a literal pattern p
RECURSIVE RemoveAllFrom(_, _, _)
RemoveAllFrom(s, p, i) ==
  IF i > Len(s) THEN ""
  ELSE IF StartsWithAt(s, i, p) THEN RemoveAllFrom(s, p, i + Len(p))
  ELSE CharAt(s, i) \o RemoveAllFrom(s, p, i + 1)

RemoveAll(s, p) == RemoveAllFrom(s, p, 1)

\* s.trim()
RECURSIVE TrimLeft(_)
TrimLeft(s) == IF Len(s) > 0 /\ IsSpace(CharAt(s, 1)) THEN TrimLeft(SubSeq(s, 2, Len(s))) ELSE s

RECURSIVE TrimRight(_)
TrimRight(s) == IF Len(s) > 0 /\ IsSpace(CharAt(s, Len(s))) THEN TrimRight(SubSeq(s, 1, Len(s) - 1)) ELSE s

Trim(s) == TrimRight(TrimLeft(s))

UpperCase == "ABCDEFGHIJKLMNOPQRSTUVWXYZ"
LowerCase == "abcdefghijklmnopqrstuvwxyz"

\* c.toLowerCase() for one character
LowerChar(c) ==
  IF \E k \in 1..26 : CharAt(UpperCase, k) = c
  THEN CharAt(LowerCase, CHOOSE k \in 1..26 : CharAt(UpperCase, k) = c)
  ELSE c

\* s.toLowerCase()
RECURSIVE ToLowerCase(_)
ToLowerCase(s) == IF s = "" THEN "" ELSE LowerChar(CharAt(s, 1)) \o ToLowerCase(SubSeq(s, 2, Len(s)))

(***************************************************************************)
(* JSON encoding and decoding of tool-call arguments.                      *)
(*                                                                         *)
(* A parsed value is a record [ok, kind, hasQuery, query]: ok = FALSE is a *)
(* SyntaxError; kind is "object" or "null".  The parser covers the JSON    *)
(* texts the model's alphabets can produce: an object with no member or    *)
(* one string member, and null.                                            *)
(***************************************************************************)
DQ == "\""
BS == "\\"

SyntaxError == [ok |-> FALSE, kind |-> "", hasQuery |-> FALSE, query |-> ""]
JsonNull == [ok |-> TRUE, kind |-> "null", hasQuery |-> FALSE, query |-> ""]
JsonObject(hasQ, q) == [ok |-> TRUE, kind |-> "object", hasQuery |-> hasQ, query |-> q]

\* JSON string escaping of JSON.stringify
RECURSIVE JsonEscape(_)
JsonEscape(s) ==
  IF s = "" THEN ""
  ELSE LET c == CharAt(s, 1)
           rest == JsonEscape(SubSeq(s, 2, Len(s)))
       IN IF c = DQ THEN BS \o DQ \o rest
          ELSE IF c = BS THEN BS \o BS \o rest
          ELSE IF c = "\n" THEN BS \o "n" \o rest
          ELSE IF c = "\t" THEN BS \o "t" \o rest
          ELSE c \o rest

\* JSON.stringify of a parsed argument value
JsonStringify(v) ==
  IF v.kind = "null" THEN "null"
  ELSE IF v.hasQuery THEN "{" \o DQ \o "query" \o DQ \o ":" \o DQ \o JsonEscape(v.query) \o DQ \o "}"
  ELSE "{}"

\* Scans a JSON string literal whose opening quote is at position i - 1.
\* Result: [ok, val, next]; next is the position after the closing quote.
RECURSIVE ScanString(_, _, _)
ScanString(s, i, acc) ==
  LET c == CharAt(s, i) IN
  IF c = "" \/ c = "\n" \/ c = "\t" THEN [ok |-> FALSE, val |-> "", next |-> i]
  ELSE IF c = DQ THEN [ok |-> TRUE, val |-> acc, next |-> i + 1]
  ELSE IF c = BS THEN
         LET d == CharAt(s, i + 1) IN
         IF d = DQ \/ d = BS \/ d = "/" THEN ScanString(s, i + 2, acc \o d)
         ELSE IF d = "n" THEN ScanString(s, i + 2, acc \o "\n")
         ELSE IF d = "t" THEN ScanString(s, i + 2, acc \o "\t")
         ELSE [ok |-> FALSE, val |-> "", next |-> i]
  ELSE ScanString(s, i + 1, acc \o c)

\* the member list of an object whose opening brace is at position i - 1
ParseMembers(s, i) ==
  LET a == SkipSpace(s, i) IN
  IF CharAt(s, a) = "}" THEN [ok |-> TRUE, hasQuery |-> FALSE, query |-> "", next |-> a + 1]
  ELSE IF CharAt(s, a) # DQ THEN [ok |-> FALSE, hasQuery |-> FALSE, query |-> "", next |-> a]
  ELSE LET key == ScanString(s, a + 1, "")
           b == SkipSpace(s, key.next)
           c == SkipSpace(s, b + 1)
           val == ScanString(s, c + 1, "")
           d == SkipSpace(s, val.next)
       IN IF key.ok /\ CharAt(s, b) = ":" /\ CharAt(s, c) = DQ /\ val.ok /\ CharAt(s, d) = "}"
          THEN [ok |-> TRUE, hasQuery |-> (key.val = "query"),
                query |-> (IF key.val = "query" THEN val.val ELSE ""), next |-> d + 1]
          ELSE [ok |-> FALSE, hasQuery |-> FALSE, query |-> "", next |-> a]

\* JSON.parse(text)
JsonParse(text) ==
  LET a == SkipSpace(text, 1) IN
  IF StartsWithAt(text, a, "null")
  THEN IF SkipSpace(text, a + 4) = Len(text) + 1 THEN JsonNull ELSE SyntaxError
  ELSE IF CharAt(text, a) = "{"
  THEN LET m == ParseMembers(text, a + 1) IN
       IF m.ok /\ SkipSpace(text, m.next) = Len(text) + 1
       THEN JsonObject(m.hasQuery, m.query) ELSE SyntaxError
  ELSE SyntaxError

(***************************************************************************)
(* Manual tool-call rescue.                                                *)
(***************************************************************************)
NoMatch == [ok |-> FALSE, cap |-> ""]

\* the lazy group (.+?) followed by a closing quote, \s* and ")":
\* c is the first captured position, e the candidate position of the quote
RECURSIVE LazyCapture(_, _, _, _)
LazyCapture(s, c, e, closers) ==
  IF e > Len(s) THEN NoMatch
  ELSE IF CharAt(s, e) \in closers /\ CharAt(s, SkipSpace(s, e + 1)) = ")"
  THEN [ok |-> TRUE, cap |-> SubSeq(s, c, e - 1)]
  ELSE LazyCapture(s, c, e + 1, closers)

\* run_sql\s*\(\s*<opener>(.+?)<closer>\s*\) anchored at position i
MatchRunSqlAt(s, i, openers, closers) ==
  IF ~StartsWithAt(s, i, "run_sql") THEN NoMatch
  ELSE LET a == SkipSpace(s, i + 7)
           b == SkipSpace(s, a + 1)
       IN IF CharAt(s, a) = "(" /\ CharAt(s, b) \in openers
          THEN LazyCapture(s, b + 1, b + 2, closers)
          ELSE NoMatch

\* content.match(pattern): the leftmost match
RECURSIVE MatchRunSqlFrom(_, _, _, _)
MatchRunSqlFrom(s, i, openers, closers) ==
  IF i > Len(s) THEN NoMatch
  ELSE LET m == MatchRunSqlAt(s, i, openers, closers) IN
       IF m.ok THEN m ELSE MatchRunSqlFrom(s, i + 1, openers, closers)

Quotes == {DQ, "'"}
\* the backtick character (the lexer accepts it only when a quote follows)
BT == SubSeq("`'", 1, 1)
Backtick == {BT}

NoCall == [hole |-> TRUE, id |-> "", name |-> "", arguments |-> ""]
ToolCall(id, name, arguments) == [hole |-> FALSE, id |-> id, name |-> name, arguments |-> arguments]

\* a rescue that prefers the backtick-delimited pattern
detectManualToolCallBacktickFirst(content) ==
  LET sqlMatchDouble == MatchRunSqlFrom(content, 1, Quotes, Quotes)
      sqlMatchBacktick == MatchRunSqlFrom(content, 1, Backtick, Backtick)
      sqlMatch == IF sqlMatchBacktick.ok THEN sqlMatchBacktick ELSE sqlMatchDouble
  IN IF sqlMatch.ok
     THEN ToolCall("manual-sql", "run_sql", JsonStringify(JsonObject(TRUE, sqlMatch.cap)))
     ELSE IF Includes(content, "get_database_schema")
             /\ (Includes(content, "()") \/ Includes(ToLowerCase(content), "call"))
     THEN ToolCall("manual-schema", "get_database_schema", "{}")
     ELSE NoCall

\* detectManualToolCall(content); NoCall stands for null
detectManualToolCall(content) ==
  LET sqlMatchDouble == MatchRunSqlFrom(content, 1, Quotes, Quotes)
      sqlMatchBacktick == MatchRunSqlFrom(content, 1, Backtick, Backtick)
      sqlMatch == IF sqlMatchDouble.ok THEN sqlMatchDouble ELSE sqlMatchBacktick
  IN IF sqlMatch.ok
     THEN ToolCall("manual-sql", "run_sql", JsonStringify(JsonObject(TRUE, sqlMatch.cap)))
     ELSE IF Includes(content, "get_database_schema")
             /\ (Includes(content, "()") \/ Includes(ToLowerCase(content), "call"))
     THEN ToolCall("manual-schema", "get_database_schema", "{}")
     ELSE NoCall

(***************************************************************************)
(* SQL identifier sanitizer.                                               *)
(*                                                                         *)
(* Module strings are ASCII: the characters of CJK stand for the           *)
(* ideographs of the range U+4E00..U+9FA5.                    *)
(***************************************************************************)
CJK == {"~", "@"}

Letters == {CharAt(UpperCase, k) : k \in 1..26} \cup {CharAt(LowerCase, k) : k \in 1..26}
Digits == {"0", "1", "2", "3", "4", "5", "6", "7", "8", "9"}

\* \w of a JavaScript regular expression
IsWord(c) == c \in Letters \cup Digits \cup {"_"}

\* case-insensitive literal match of the upper-case word w at position i
MatchesWordAt(s, i, w) ==
  /\ i >= 1 /\ i + Len(w) - 1 <= Len(s)
  /\ \A k \in 1..Len(w) : LowerChar(CharAt(s, i + k - 1)) = LowerChar(CharAt(w, k))

\* every character of s satisfies the class
AllIn(s, class) == \A k \in 1..Len(s) : CharAt(s, k) \in class
AnyIn(s, class) == \E k \in 1..Len(s) : CharAt(s, k) \in class

\* /^\[[^\]]+\]$/.test(t)
FullyBracketed(t) ==
  /\ Len(t) >= 3 /\ CharAt(t, 1) = "[" /\ CharAt(t, Len(t)) = "]"
  /\ \A k \in 2..(Len(t) - 1) : CharAt(t, k) # "]"

\* /^[A-Za-z_][A-Za-z0-9_]*$/.test(t)
IsAsciiIdentifier(t) ==
  /\ Len(t) >= 1 /\ CharAt(t, 1) \in Letters \cup {"_"}
  /\ AllIn(t, Letters \cup Digits \cup {"_"})

\* t.replace(/^["']|["']$/g, "")
StripQuotes(t) ==
  LET a == IF CharAt(t, 1) \in Quotes THEN SubSeq(t, 2, Len(t)) ELSE t
      keepLast == Len(t) >= 2 /\ CharAt(t, Len(t)) \in Quotes
  IN IF keepLast THEN SubSeq(a, 1, Len(a) - 1) ELSE a

\* t.replace(/^\[|\]$/g, "")
StripBrackets(t) ==
  LET a == IF CharAt(t, 1) = "[" THEN SubSeq(t, 2, Len(t)) ELSE t
      dropLast == Len(t) >= 1 /\ CharAt(t, Len(t)) = "]"
  IN IF dropLast /\ Len(a) >= 1 THEN SubSeq(a, 1, Len(a) - 1) ELSE a

\* end (inclusive) of the longest run of characters outside class starting at i; i - 1 if none
RECURSIVE RunEnd(_, _, _)
RunEnd(s, i, stop) ==
  IF i > Len(s) \/ CharAt(s, i) \in stop THEN i - 1 ELSE RunEnd(s, i + 1, stop)

\* s.replace(a, b) for strings: the first occurrence of a
ReplaceFirst(s, a, b) ==
  IF ~Includes(s, a) THEN s
  ELSE LET i == CHOOSE k \in 1..(Len(s) + 1) :
                  StartsWithAt(s, k, a) /\ \A m \in 1..(k - 1) : ~StartsWithAt(s, m, a)
       IN SubSeq(s, 1, i - 1) \o b \o SubSeq(s, i + Len(a), Len(s))

\* the match of /\bAS\s+(\[[^\]]+\]|[^\s,\)\]]+)/i anchored at position i:
\* [ok, last, alias] where last is the last position of the match
AliasMatchAt(s, i) ==
  LET j == SkipSpace(s, i + 2)
      close == RunEnd(s, j + 1, {"]"}) + 1
      bareEnd == RunEnd(s, j, {" ", "\n", "\t", ",", ")", "]"})
  IN IF ~(MatchesWordAt(s, i, "AS") /\ ~IsWord(CharAt(s, i - 1)) /\ j > i + 2)
     THEN [ok |-> FALSE, last |-> i, alias |-> ""]
     ELSE IF CharAt(s, j) = "[" /\ close <= Len(s) /\ close >= j + 2
     THEN [ok |-> TRUE, last |-> close, alias |-> SubSeq(s, j, close)]
     ELSE IF bareEnd >= j
     THEN [ok |-> TRUE, last |-> bareEnd, alias |-> SubSeq(s, j, bareEnd)]
     ELSE [ok |-> FALSE, last |-> i, alias |-> ""]

\* the replacement callback of the alias pass: [text, used] where used tells
\* whether a synthetic alias was consumed
AliasReplacement(match, alias, aliasIndex) ==
  LET trimmed == StripQuotes(Trim(alias))
      inner == StripBrackets(trimmed)
  IN IF trimmed = "" THEN [text |-> match, used |-> FALSE]
     ELSE IF FullyBracketed(trimmed) THEN [text |-> match, used |-> FALSE]
     ELSE IF IsAsciiIdentifier(inner) THEN [text |-> ReplaceFirst(match, alias, inner), used |-> FALSE]
     ELSE IF AnyIn(inner, CJK) THEN [text |-> ReplaceFirst(match, alias, "[" \o inner \o "]"), used |-> FALSE]
     ELSE [text |-> ReplaceFirst(match, alias, "col_" \o ToString(aliasIndex)), used |-> TRUE]

RECURSIVE AliasPass(_, _, _)
AliasPass(s, i, aliasIndex) ==
  IF i > Len(s) THEN ""
  ELSE LET m == AliasMatchAt(s, i) IN
       IF m.ok
       THEN LET r == AliasReplacement(SubSeq(s, i, m.last), m.alias, aliasIndex)
            IN r.text \o AliasPass(s, m.last + 1, IF r.used THEN aliasIndex + 1 ELSE aliasIndex)
       ELSE CharAt(s, i) \o AliasPass(s, i + 1, aliasIndex)

\* a token pass that wraps every token holding an ideograph, quoted or not
RECURSIVE WrapTokensAny(_, _)
WrapTokensAny(body, i) ==
  IF i > Len(body) THEN ""
  ELSE IF CharAt(body, i) \in {" ", "\n", "\t", ","} THEN CharAt(body, i) \o WrapTokensAny(body, i + 1)
  ELSE LET e == RunEnd(body, i, {" ", "\n", "\t", ","})
           ident == SubSeq(body, i, e)
           k == SkipSpace(body, e + 1)
           dirLen == IF k = e + 1 THEN 0
                     ELSE IF MatchesWordAt(body, k, "ASC") THEN 3
                     ELSE IF MatchesWordAt(body, k, "DESC") THEN 4 ELSE 0
           last == IF dirLen > 0 THEN k + dirLen - 1 ELSE e
           orderPart == SubSeq(body, e + 1, last)
           segment == SubSeq(body, i, last)
       IN (IF AnyIn(ident, CJK) THEN "[" \o ident \o "]" \o orderPart
           ELSE segment) \o WrapTokensAny(body, last + 1)

\* a token pass that drops the direction keyword of a token it wraps
RECURSIVE WrapTokensBare(_, _)
WrapTokensBare(body, i) ==
  IF i > Len(body) THEN ""
  ELSE IF CharAt(body, i) \in {" ", "\n", "\t", ","} THEN CharAt(body, i) \o WrapTokensBare(body, i + 1)
  ELSE LET e == RunEnd(body, i, {" ", "\n", "\t", ","})
           ident == SubSeq(body, i, e)
           k == SkipSpace(body, e + 1)
           dirLen == IF k = e + 1 THEN 0
                     ELSE IF MatchesWordAt(body, k, "ASC") THEN 3
                     ELSE IF MatchesWordAt(body, k, "DESC") THEN 4 ELSE 0
           last == IF dirLen > 0 THEN k + dirLen - 1 ELSE e
           segment == SubSeq(body, i, last)
       IN (IF FullyBracketed(ident) THEN segment
           ELSE IF AnyIn(ident, CJK) /\ AllIn(ident, CJK \cup Letters \cup Digits \cup {"_"})
           THEN "[" \o ident \o "]"
           ELSE segment) \o WrapTokensBare(body, last + 1)

\* body.replace(/([^\s,]+)(\s+(ASC|DESC))?/gi, callback)
RECURSIVE WrapTokens(_, _)
WrapTokens(body, i) ==
  IF i > Len(body) THEN ""
  ELSE IF CharAt(body, i) \in {" ", "\n", "\t", ","} THEN CharAt(body, i) \o WrapTokens(body, i + 1)
  ELSE LET e == RunEnd(body, i, {" ", "\n", "\t", ","})
           ident == SubSeq(body, i, e)
           k == SkipSpace(body, e + 1)
           dirLen == IF k = e + 1 THEN 0
                     ELSE IF MatchesWordAt(body, k, "ASC") THEN 3
                     ELSE IF MatchesWordAt(body, k, "DESC") THEN 4 ELSE 0
           last == IF dirLen > 0 THEN k + dirLen - 1 ELSE e
           orderPart == SubSeq(body, e + 1, last)
           segment == SubSeq(body, i, last)
       IN (IF FullyBracketed(ident) THEN segment
           ELSE IF AnyIn(ident, CJK) /\ AllIn(ident, CJK \cup Letters \cup Digits \cup {"_"})
           THEN "[" \o ident \o "]" \o orderPart
           ELSE segment) \o WrapTokens(body, last + 1)

\* the match of /\b<w1>\s+BY\s+([^;]+)/i anchored at i: [ok, bodyStart, last]
ClauseMatchAt(s, i, w1) ==
  LET a == SkipSpace(s, i + Len(w1))
      b == SkipSpace(s, a + 2)
      bodyStart == IF b <= Len(s) /\ CharAt(s, b) # ";" THEN b ELSE b - 1
      last == RunEnd(s, bodyStart, {";"})
  IN IF /\ MatchesWordAt(s, i, w1) /\ ~IsWord(CharAt(s, i - 1)) /\ a > i + Len(w1)
        /\ MatchesWordAt(s, a, "BY") /\ b > a + 2
        /\ bodyStart > a + 2
     THEN [ok |-> TRUE, bodyStart |-> bodyStart, last |-> last]
     ELSE [ok |-> FALSE, bodyStart |-> i, last |-> i]

RECURSIVE ClausePass(_, _, _)
ClausePass(s, i, w1) ==
  IF i > Len(s) THEN ""
  ELSE LET m == ClauseMatchAt(s, i, w1) IN
       IF m.ok
       THEN w1 \o " BY " \o WrapTokens(SubSeq(s, m.bodyStart, m.last), 1) \o ClausePass(s, m.last + 1, w1)
       ELSE CharAt(s, i) \o ClausePass(s, i + 1, w1)

\* wrapChineseIdentifierInOrderGroup(input, clause)
wrapChineseIdentifierInOrderGroup(input, w1) == ClausePass(input, 1, w1)

\* sanitizeSql(sql) for a defined sql ("" is returned unchanged)
sanitizeSql(sql) ==
  IF sql = "" THEN sql
  ELSE wrapChineseIdentifierInOrderGroup(
         wrapChineseIdentifierInOrderGroup(AliasPass(sql, 1, 1), "ORDER"), "GROUP")

(***************************************************************************)
(* Result sets.  A row is [id, shape]: the shape fixes what the batch      *)
(* sizer measures on the row (its keys, the length of its JSON text, its   *)
(* non-null cells, its string cells and its long string cells) and whether *)
(* JSON.stringify accepts it.                                              *)
(***************************************************************************)
Row(id, shape) == [id |-> id, shape |-> shape]

\* Object.keys(row).length
FieldCount(row) == IF row.shape = "heavy" THEN 40 ELSE 1
\* JSON.stringify(row).length (for a row that cannot be serialized: the
\* length of its values joined by blanks)
RowChars(row) == IF row.shape = "heavy" THEN 4000 ELSE IF row.shape = "cyclic" THEN 15 ELSE 8
\* cells that are neither null nor undefined
CellCount(row) == 1
\* cells whose value is a string
TextCells(row) == IF row.shape = "heavy" THEN 1 ELSE 0
\* string cells of length >= 256
LongTextCells(row) == IF row.shape = "heavy" THEN 1 ELSE 0
\* JSON.stringify(row) does not throw
Serializable(row) == row.shape # "cyclic"

\* Object.keys(row)
Keys(row) == [k \in 1..FieldCount(row) |-> "k" \o ToString(k)]

\* JSON.stringify(rows) as text; defined for serializable rows
RECURSIVE RowsJson(_)
RowsJson(rows) ==
  IF rows = <<>> THEN ""
  ELSE "{" \o DQ \o "id" \o DQ \o ":" \o ToString(rows[1].id) \o "}"
       \o (IF Len(rows) > 1 THEN "," ELSE "") \o RowsJson(Tail(rows))

JsonOfRows(rows) == "[" \o RowsJson(rows) \o "]"
CanStringify(rows) == \A k \in 1..Len(rows) : Serializable(rows[k])

Min(a, b) == IF a < b THEN a ELSE b
Max(a, b) == IF a > b THEN a ELSE b

\* the measure named m of a row
Measure(row, m) ==
  CASE m = "fields" -> FieldCount(row)
    [] m = "chars" -> RowChars(row)
    [] m = "cells" -> CellCount(row)
    [] m = "text" -> TextCells(row)
    [] m = "long" -> LongTextCells(row)

\* the total of a measure over the first n rows
RECURSIVE SumOver(_, _, _)
SumOver(rows, n, m) == IF n = 0 THEN 0 ELSE Measure(rows[n], m) + SumOver(rows, n - 1, m)

(***************************************************************************)
(* Adaptive batch sizer, in exact rational arithmetic.  With s sampled     *)
(* rows and c non-null cells, C = N / D for                                *)
(*   N = 800 c min(totalFields, 40 s) + 6 c min(totalRowChars, 4000 s)     *)
(*       + 12000 s (textCells + longTextCells)   and   D = 80000 s c       *)
(* (the weights 0.4, 0.3, 0.3 and the factors 0.5, 0.5 times D),           *)
(* so that floor(100 - 95 C) = 100 - ceil(95 N / D).                       *)
(***************************************************************************)
\* the totals of the sampling loop over the first rows of data
Totals(data) ==
  LET sampleCount == Min(Len(data), SAMPLE_LIMIT)
  IN [count |-> sampleCount,
      fields |-> SumOver(data, sampleCount, "fields"),
      chars |-> SumOver(data, sampleCount, "chars"),
      cells |-> SumOver(data, sampleCount, "cells"),
      text |-> SumOver(data, sampleCount, "text"),
      long |-> SumOver(data, sampleCount, "long")]

\* a batch size computed without any clamp
BatchSizeOfUnclamped(t) ==
  IF t.count = 0 THEN DEFAULT_BATCH
  ELSE LET c == Max(t.cells, 1)
           D == (F_NORM * L_NORM * t.count * c) \div 2
           N == 800 * c * t.fields + 6 * c * t.chars
                + (IF t.cells > 0 THEN 12000 * t.count * (t.text + t.long) ELSE 0)
       IN B_MAX - (((B_MAX - B_MIN) * N + D - 1) \div D)

\* a batch size that grows with the complexity
BatchSizeOfRising(t) ==
  IF t.count = 0 THEN DEFAULT_BATCH
  ELSE LET c == Max(t.cells, 1)
           D == (F_NORM * L_NORM * t.count * c) \div 2
           N == 800 * c * Min(t.fields, F_NORM * t.count)
                + 6 * c * Min(t.chars, L_NORM * t.count)
                + (IF t.cells > 0 THEN 12000 * t.count * (t.text + t.long) ELSE 0)
           Cn == Min(Max(N, 0), D)
       IN Max(B_MIN, Min(B_MIN + (((B_MAX - B_MIN) * Cn) \div D), B_MAX))

\* the batch size from the totals of the sample
BatchSizeOf(t) ==
  IF t.count = 0 THEN DEFAULT_BATCH
  ELSE LET c == Max(t.cells, 1)
           D == (F_NORM * L_NORM * t.count * c) \div 2
           N == 800 * c * Min(t.fields, F_NORM * t.count)
                + 6 * c * Min(t.chars, L_NORM * t.count)
                + (IF t.cells > 0 THEN 12000 * t.count * (t.text + t.long) ELSE 0)
           Cn == Min(Max(N, 0), D)
           batchSize == B_MAX - (((B_MAX - B_MIN) * Cn + D - 1) \div D)
       IN Max(B_MIN, Min(batchSize, B_MAX))

calculateAdaptiveBatchSize(data) ==
  IF Len(data) = 0 THEN DEFAULT_BATCH ELSE BatchSizeOf(Totals(data))

\* batches that leave out a last batch shorter than the batch size
RECURSIVE BatchesFullOnly(_, _)
BatchesFullOnly(data, size) ==
  IF Len(data) < size THEN <<>>
  ELSE <<SubSeq(data, 1, size)>> \o BatchesFullOnly(SubSeq(data, size + 1, Len(data)), size)

\* the batches of smartCompressData: consecutive slices of BATCH_SIZE rows
RECURSIVE Batches(_, _)
Batches(data, size) ==
  IF Len(data) = 0 THEN <<>>
  ELSE <<SubSeq(data, 1, Min(size, Len(data)))>> \o Batches(SubSeq(data, Min(size, Len(data)) + 1, Len(data)), size)

(***************************************************************************)
(* Query engine boundary: executeSql(sql) wraps the engine's outcome.      *)
(* An outcome is [kind, message, rows] with kind "throw", "undefined",     *)
(* "scalar" (a result that is not an array) or "rows".  In a QueryResult   *)
(* error = "" stands for an absent error.                                  *)
(***************************************************************************)
Outcome(kind, message, rows) == [kind |-> kind, message |-> message, rows |-> rows]

\* an executeSql that reports the message of the thrown value as it is
executeSqlRawMessage(outcome) ==
  IF outcome.kind = "throw"
  THEN [columns |-> <<>>, data |-> <<>>, error |-> outcome.message]
  ELSE IF outcome.kind = "undefined"
  THEN [columns |-> <<>>, data |-> <<>>,
        error |-> "SQL query returned no result (undefined). The table might not exist or the query format is invalid."]
  ELSE IF outcome.kind = "scalar"
  THEN [columns |-> <<"Result">>, data |-> <<Row(1, "light")>>, error |-> ""]
  ELSE IF Len(outcome.rows) = 0
  THEN [columns |-> <<>>, data |-> <<>>, error |-> ""]
  ELSE [columns |-> Keys(outcome.rows[1]), data |-> outcome.rows, error |-> ""]

executeSql(outcome) ==
  IF outcome.kind = "throw"
  THEN [columns |-> <<>>, data |-> <<>>,
        error |-> IF outcome.message = "" THEN "Unknown SQL Error" ELSE outcome.message]
  ELSE IF outcome.kind = "undefined"
  THEN [columns |-> <<>>, data |-> <<>>,
        error |-> "SQL query returned no result (undefined). The table might not exist or the query format is invalid."]
  ELSE IF outcome.kind = "scalar"
  THEN [columns |-> <<"Result">>, data |-> <<Row(1, "light")>>, error |-> ""]
  ELSE IF Len(outcome.rows) = 0
  THEN [columns |-> <<>>, data |-> <<>>, error |-> ""]
  ELSE [columns |-> Keys(outcome.rows[1]), data |-> outcome.rows, error |-> ""]

(***************************************************************************)
(* The agent session: state of one runAgent call.                          *)
(***************************************************************************)
VARIABLES
  pc,                \* control point of runAgent
  outcome,           \* how the call ended: "" while running, else "rejected",
                     \* "budget", "final", "empty" or "error"
  thrown,            \* message of the error the returned promise rejects with
  apiKey,            \* settings.apiKey
  schema,            \* the schema argument
  iteration,         \* the iteration counter
  steps,             \* the step log
  messages,          \* the conversation history
  currentThought,    \* thought text of the current iteration
  toolCallsBuffer,   \* tool-call descriptors of the current iteration
  tcIdx,             \* position of the for-of loop in toolCallsBuffer
  fnArgs,            \* parsed arguments of the current tool call
  resultString,      \* observation text of the current tool call
  resultData,        \* structured result of the current tool call
  sql,               \* sanitized query of the current run_sql call
  queryResult,       \* result of the current run_sql call
  batchIndex,        \* index i of smartCompressData's loop
  accumulatedResult, \* accumulator of smartCompressData
  inflight,          \* model requests awaited and not yet settled
  requests,          \* number of streaming requests opened
  compressCalls,     \* number of compression requests opened
  engineCalls,       \* number of executeSql invocations
  schemaLookups,     \* number of schema listings built
  stepUpdates,       \* number of onStepUpdate invocations
  shown,             \* the snapshot passed to the last onStepUpdate invocation
  finalAnswers,      \* arguments of the onFinalAnswer invocations, in order
  llm,               \* behaviour of the language model: "free" or "perpetual"
  deltasLeft,        \* deltas a free model may still emit
  sizer,             \* a run of the batch sizer on its own: phase, data, totals, size
  sanitizer,         \* a run of sanitizeSql on its own: phase, the parts of the query, sql, once, twice
  runSql,            \* a run of executeSql and smartCompressData on their own
  parser,            \* a run of the streaming response parser on its own
  app                \* the application around the agent: engine tables, schema list, upload in progress

sessionVars == <<pc, outcome, thrown, apiKey, schema, iteration, steps, messages, currentThought,
          toolCallsBuffer, tcIdx, fnArgs, resultString, resultData, sql, queryResult,
          batchIndex, accumulatedResult, inflight, requests, compressCalls, engineCalls,
          schemaLookups, stepUpdates, shown, finalAnswers, llm, deltasLeft>>

\* runs of the pure functions on their own
benches == <<sizer, sanitizer, runSql, parser, app>>

vars == <<sessionVars, sizer, sanitizer, runSql, parser, app>>

\* variables of the dispatcher that the streaming part leaves alone
dispatchVars == <<tcIdx, fnArgs, resultString, resultData, sql, queryResult,
                  batchIndex, accumulatedResult>>
\* counters of tool activity
toolCounters == <<compressCalls, engineCalls, schemaLookups>>
envVars == <<llm, deltasLeft>>
\* arguments of runAgent
inputVars == <<apiKey, schema>>

(***************************************************************************)
(* Inputs.                                                                 *)
(***************************************************************************)
Question == "How many rows?"
SystemPrompt == "SYSTEM"

\* settings.apiKey: absent/empty or present
ApiKeys == {"", "sk-key"}

Table(tableName, originalName, columns, rowCount) ==
  [tableName |-> tableName, originalName |-> originalName, columns |-> columns, rowCount |-> rowCount]

\* no table, and two tables of which the second has no source label
Schemas ==
  { <<>>,
    <<Table("t_1", "sales", <<"city", "amount">>, 3), Table("t_2", "", <<"id">>, 0)>> }

FixtureQuery == "SELECT * FROM t_1"

\* content fragments a free model may stream
ContentFragments ==
  { "The answer is 42.",
    "run_sql(" \o DQ \o FixtureQuery \o DQ \o ")",
    "run_sql('SELECT 1')" }

CallId(index) == "call_" \o ToString(index)

\* name and argument text of the tool calls a free model may stream whole
CallShapes ==
  { <<"get_database_schema", "{}">>,
    <<"run_sql", JsonStringify(JsonObject(TRUE, FixtureQuery))>>,
    <<"run_sql", "null">>,
    <<"run_sql", "{bad">>,
    <<"lookup", "{}">> }

\* the shapes streamed at the second index
SecondCallShapes ==
  { <<"get_database_schema", "{}">>,
    <<"run_sql", "{bad">> }

\* a tool-call fragment of a delta
Fragment(index, id, name, arguments) ==
  [index |-> index, id |-> id, name |-> name, arguments |-> arguments]

ToolCallFragments ==
  { Fragment(0, CallId(0), sh[1], sh[2]) : sh \in CallShapes }
  \cup { Fragment(1, CallId(1), sh[1], sh[2]) : sh \in SecondCallShapes }

\* the one fragment a perpetual model streams in every turn
PerpetualFragment == Fragment(0, CallId(0), "get_database_schema", "{}")

\* what the engine may answer to a query
EngineOutcomes ==
  { Outcome("throw", "Parse error", <<>>),
    Outcome("rows", "", <<>>),
    Outcome("rows", "", [k \in 1..MaxRows |-> Row(k, "heavy")]),
    Outcome("rows", "", <<Row(1, "cyclic")>>),
    Outcome("rows", "", [k \in 1..(PREVIEW_ROWS + 2) |->
                           Row(k, IF k <= PREVIEW_ROWS + 1 THEN "light" ELSE "cyclic")]) }

\* what the engine answers when the query argument is undefined
UndefinedQueryOutcomes == { Outcome("throw", "Cannot read properties of undefined", <<>>) }

\* texts a compression request may resolve with
CompressReplies == { " Total: 3 rows.\n" }
CompressError == "Request timed out."
StreamError == "Connection error."

(***************************************************************************)
(* Steps and messages.                                                     *)
(***************************************************************************)
NoResult == [kind |-> "none", tables |-> <<>>, query |-> executeSql(Outcome("rows", "", <<>>))]
SchemaResult(tables) == [kind |-> "schema", tables |-> tables, query |-> executeSql(Outcome("rows", "", <<>>))]
QueryResultOf(qr) == [kind |-> "query", tables |-> <<>>, query |-> qr]

\* an AgentStep; the id keeps the prefix of the source's identifier
Step(id, type, content, status, toolName, result) ==
  [id |-> id, type |-> type, content |-> content, status |-> status,
   toolName |-> toolName, result |-> result]

\* a message whose call identifier and tool name are exchanged
MessageSwapped(role, content, tool_calls, tool_call_id, name) ==
  [role |-> role, content |-> content, tool_calls |-> tool_calls,
   tool_call_id |-> name, name |-> tool_call_id]

\* a conversation message; content "" with tool calls stands for null
Message(role, content, tool_calls, tool_call_id, name) ==
  [role |-> role, content |-> content, tool_calls |-> tool_calls,
   tool_call_id |-> tool_call_id, name |-> name]

\* in-place updates that write to the first step
LastIndexFirst(log) == 1

\* index of the step that in-place updates write to
LastIndex(log) == Len(log)

\* steps.push(step)
pushStep(log, step) == Append(log, step)

\* [...steps]: the snapshot an onStepUpdate invocation passes
onStepUpdate(log) == log

\* a pushStep that invokes the callback before the push
pushStepShownBefore(log, step) == onStepUpdate(log)

\* the snapshot passed by pushStep: the log after the push
pushStepShown(log, step) == onStepUpdate(pushStep(log, step))

\* the write of updateLastStep: content and status of the last step
updateLastStep(log, content, status) ==
  IF Len(log) = 0 THEN log
  ELSE [log EXCEPT ![LastIndex(log)].content = content, ![LastIndex(log)].status = status]

\* steps[steps.length - 1].status = status
setLastStatus(log, status) == [log EXCEPT ![LastIndex(log)].status = status]

\* steps[steps.length - 1].content = content
setLastContent(log, content) == [log EXCEPT ![LastIndex(log)].content = content]

\* a model request: a streaming completion carries the history, a
\* compression completion carries the prompt's variable parts
Request(kind, history, sqlText, prior, batchJson) ==
  [kind |-> kind, history |-> history, question |-> Question, sql |-> sqlText,
   prior |-> prior, batchJson |-> batchJson]

\* the "no prior context" marker of the compression prompt
NoPriorMarker == "(none yet, this is the first batch)"

\* the step appended by the catch block of the iteration
ErrorStep(message) == Step("err", "thought", "Agent Error: " \o message, "error", "", NoResult)

(***************************************************************************)
(* Streaming response parser.                                              *)
(***************************************************************************)
\* a merge that replaces the argument text by the fragment's
MergeFragmentReplace(buf, f) ==
  LET pos == f.index + 1
      grown == IF pos > Len(buf) THEN buf \o [k \in 1..(pos - Len(buf)) |-> NoCall] ELSE buf
      entry == IF grown[pos].hole THEN ToolCall(f.id, "", "") ELSE grown[pos]
  IN [grown EXCEPT ![pos] = [entry EXCEPT !.id = IF f.id # "" THEN f.id ELSE @,
                                          !.name = @ \o f.name,
                                          !.arguments = f.arguments]]

\* toolCallsBuffer after one tool-call fragment: the array grows with holes
\* up to the fragment's index, a missing descriptor is created, then the
\* identifier is replaced and name and argument text are appended
MergeFragment(buf, f) ==
  LET pos == f.index + 1
      grown == IF pos > Len(buf) THEN buf \o [k \in 1..(pos - Len(buf)) |-> NoCall] ELSE buf
      entry == IF grown[pos].hole THEN ToolCall(f.id, "", "") ELSE grown[pos]
  IN [grown EXCEPT ![pos] = [entry EXCEPT !.id = IF f.id # "" THEN f.id ELSE @,
                                          !.name = @ \o f.name,
                                          !.arguments = @ \o f.arguments]]

RECURSIVE MergeFragments(_, _)
MergeFragments(buf, fs) ==
  IF fs = <<>> THEN buf ELSE MergeFragments(MergeFragment(buf, Head(fs)), Tail(fs))

\* a cleaning that drops the whole fragment when the closing token is in it
CleanContentWhole(content) == IF Includes(content, "</tool_call>") THEN "" ELSE content

\* delta.content.replace(/<\/tool_call>/g, '')
CleanContent(content) == RemoveAll(content, "</tool_call>")

Delta(content, tool_calls) == [content |-> content, tool_calls |-> tool_calls]

\* the deltas a free model may stream
Deltas ==
  { Delta(c, <<>>) : c \in ContentFragments } \cup { Delta("", <<f>>) : f \in ToolCallFragments }

(***************************************************************************)
(* Guards of the loop controller.                                          *)
(***************************************************************************)
\* a credential check that lets every bundle pass
CredentialMissingNever(key) == FALSE

\* !settings.apiKey
CredentialMissing(key) == key = ""

\* a loop condition that admits one iteration more
LoopGuardLeq(it) == it <= MAX_ITERATIONS

\* while (iteration < MAX_ITERATIONS)
LoopGuard(it) == it < MAX_ITERATIONS

\* a rescue attempted in every turn
RescueDueAlways(buf) == TRUE

\* if (toolCallsBuffer.length === 0): the rescue is attempted
RescueDue(buf) == Len(buf) = 0

\* a tool-turn test that is off by one
HasToolCallsSeveral(buf) == Len(buf) > 1

\* if (toolCallsBuffer.length > 0): the turn is a tool turn
HasToolCalls(buf) == Len(buf) > 0

\* if (currentThought): the final answer is emitted
FinalAnswerDue(thought) == thought # ""

\* control point after the else branch of the turn (break)
AfterFinalBranch == "done"

\* a catch block without the break
AfterCatchContinue == "loop"

\* control point after the catch block (break)
AfterCatch == "done"

\* control point after the for-of loop over the tool calls
AfterToolCalls == "loop"

(***************************************************************************)
(* Actions of the loop controller.                                         *)
(***************************************************************************)
\* no run of the sizer on its own
NoSizer == [phase |-> "off", data |-> <<>>, totals |-> Totals(<<>>), size |-> 0]

\* the state of a session before runAgent is called
SessionInit ==
  /\ pc = "idle" /\ outcome = "" /\ thrown = ""
  /\ apiKey \in ApiKeys /\ schema \in Schemas
  /\ iteration = 0 /\ steps = <<>> /\ messages = <<>>
  /\ currentThought = "" /\ toolCallsBuffer = <<>> /\ tcIdx = 0
  /\ fnArgs = JsonObject(FALSE, "") /\ resultString = "" /\ resultData = NoResult
  /\ sql = "" /\ queryResult = executeSql(Outcome("rows", "", <<>>))
  /\ batchIndex = 0 /\ accumulatedResult = "" /\ inflight = <<>>
  /\ requests = 0 /\ compressCalls = 0 /\ engineCalls = 0 /\ schemaLookups = 0
  /\ stepUpdates = 0 /\ shown = <<>> /\ finalAnswers = <<>>
  /\ llm \in {"free", "perpetual"} /\ deltasLeft = MaxDeltas

\* no run of the sanitizer on its own
NoSanitizer ==
  [phase |-> "off", alias |-> [text |-> "", kind |-> ""], second |-> [text |-> "", kind |-> ""],
   cast |-> "", literal |-> "", clause |-> "",
   tokens |-> <<>>, sql |-> "", once |-> "", twice |-> ""]

\* no run of executeSql and smartCompressData on their own
NoRunSql ==
  [phase |-> "off", engine |-> Outcome("rows", "", <<>>), result |-> executeSql(Outcome("rows", "", <<>>)),
   round |-> 0, acc |-> "", log |-> <<>>, request |-> <<>>, priors |-> <<>>, settled |-> <<>>,
   reports |-> <<>>, resultString |-> "", error |-> ""]

\* no run of the streaming response parser on its own
NoParser ==
  [phase |-> "off", deltas |-> <<>>, currentThought |-> "", toolCallsBuffer |-> <<>>,
   steps |-> <<>>, updates |-> <<>>, turn |-> "", finalAnswer |-> ""]

\* the application is not looked at
NoApp ==
  [phase |-> "off", engine |-> {}, tables |-> <<>>, files |-> <<>>, i |-> 0, newTables |-> <<>>,
   isLoadingFile |-> FALSE, made |-> 0, events |-> 0, alerts |-> 0, reports |-> <<>>, messages |-> <<>>]

Init ==
  /\ SessionInit /\ sizer = NoSizer /\ sanitizer = NoSanitizer /\ runSql = NoRunSql
  /\ parser = NoParser /\ app = NoApp

\* runAgent is called: the credential check and the set-up of the session
RunAgent ==
  /\ pc = "idle"
  /\ IF CredentialMissing(apiKey)
     THEN /\ pc' = "done" /\ outcome' = "rejected" /\ thrown' = "API Key is not configured"
          /\ UNCHANGED messages
     ELSE /\ pc' = "loop"
          /\ messages' = <<Message("system", SystemPrompt, <<>>, "", ""),
                           Message("user", Question, <<>>, "", "")>>
          /\ UNCHANGED <<outcome, thrown>>
  /\ UNCHANGED <<inputVars, benches, iteration, steps, currentThought, toolCallsBuffer, dispatchVars, inflight,
                 requests, toolCounters, stepUpdates, shown, finalAnswers, envVars>>

\* the while condition fails: the function returns
LoopExit ==
  /\ pc = "loop" /\ ~LoopGuard(iteration)
  /\ pc' = "done" /\ outcome' = "budget"
  /\ UNCHANGED <<thrown, inputVars, benches, iteration, steps, messages, currentThought, toolCallsBuffer,
                 dispatchVars, inflight, requests, toolCounters, stepUpdates, shown, finalAnswers, envVars>>

\* an iteration starts: the thought step is appended and the streaming
\* request is opened
IterationStart ==
  /\ pc = "loop" /\ LoopGuard(iteration)
  /\ iteration' = iteration + 1
  /\ steps' = pushStep(steps, Step("step", "thought", "", "streaming", "", NoResult))
  /\ shown' = pushStepShown(steps, Step("step", "thought", "", "streaming", "", NoResult))
  /\ stepUpdates' = stepUpdates + 1
  /\ currentThought' = "" /\ toolCallsBuffer' = <<>>
  /\ inflight' = Append(inflight, Request("stream", messages, "", "", ""))
  /\ requests' = requests + 1
  /\ pc' = "stream"
  /\ UNCHANGED <<outcome, thrown, inputVars, benches, messages, dispatchVars, toolCounters, finalAnswers, envVars>>

\* the request or the stream fails: the catch block of the iteration
StreamFail ==
  /\ pc = "stream" /\ llm = "free"
  /\ inflight' = <<>>
  /\ steps' = pushStep(steps, ErrorStep(StreamError))
  /\ shown' = pushStepShown(steps, ErrorStep(StreamError))
  /\ stepUpdates' = stepUpdates + 1
  /\ pc' = AfterCatch /\ outcome' = "error"
  /\ UNCHANGED <<thrown, inputVars, benches, iteration, messages, currentThought, toolCallsBuffer,
                 dispatchVars, requests, toolCounters, finalAnswers, envVars>>

\* the body of the for-await loop for one delta
ConsumeDelta(d) ==
  /\ IF d.content # ""
     THEN /\ currentThought' = currentThought \o CleanContent(d.content)
          /\ steps' = updateLastStep(steps, currentThought', "streaming")
          /\ shown' = onStepUpdate(steps')
          /\ stepUpdates' = stepUpdates + 1
     ELSE UNCHANGED <<currentThought, steps, stepUpdates, shown>>
  /\ toolCallsBuffer' = MergeFragments(toolCallsBuffer, d.tool_calls)

\* a delta arrives
StreamDelta ==
  /\ pc = "stream"
  /\ \/ /\ llm = "free" /\ deltasLeft > 0
        /\ \E d \in Deltas : ConsumeDelta(d)
        /\ deltasLeft' = deltasLeft - 1
     \/ /\ llm = "perpetual" /\ toolCallsBuffer = <<>>
        /\ ConsumeDelta(Delta("", <<PerpetualFragment>>))
        /\ UNCHANGED deltasLeft
  /\ UNCHANGED <<pc, outcome, thrown, inputVars, benches, iteration, messages, dispatchVars, inflight,
                 requests, toolCounters, finalAnswers, llm>>

\* the stream ends: the thought step is completed, the rescue is tried, and
\* the turn becomes a tool turn, the final answer or an empty turn
StreamEnd ==
  /\ pc = "stream"
  /\ llm = "perpetual" => toolCallsBuffer # <<>>
  /\ inflight' = <<>>
  /\ steps' = updateLastStep(steps, currentThought, "complete")
  /\ shown' = onStepUpdate(steps')
  /\ stepUpdates' = stepUpdates + 1
  /\ LET manualCall == detectManualToolCall(currentThought)
         buf == IF RescueDue(toolCallsBuffer) /\ ~manualCall.hole
                THEN Append(toolCallsBuffer, manualCall) ELSE toolCallsBuffer
     IN /\ toolCallsBuffer' = buf
        /\ IF HasToolCalls(buf)
           THEN /\ messages' = Append(messages, Message("assistant", "", buf, "", ""))
                /\ tcIdx' = 1 /\ pc' = "dispatch"
                /\ UNCHANGED <<outcome, finalAnswers>>
           ELSE /\ IF FinalAnswerDue(currentThought)
                   THEN /\ finalAnswers' = Append(finalAnswers, currentThought)
                        /\ messages' = Append(messages, Message("assistant", currentThought, <<>>, "", ""))
                        /\ outcome' = "final"
                   ELSE /\ outcome' = "empty"
                        /\ UNCHANGED <<finalAnswers, messages>>
                /\ pc' = AfterFinalBranch /\ UNCHANGED tcIdx
  /\ UNCHANGED <<thrown, inputVars, benches, iteration, currentThought, fnArgs, resultString, resultData,
                 sql, queryResult, batchIndex, accumulatedResult, requests, toolCounters, envVars>>

(***************************************************************************)
(* Compression accumulator.                                                *)
(***************************************************************************)
\* a progress text that counts the rounds from zero
ProgressMessageZeroBased(i, total, size) ==
  "Compressing iteratively... (round " \o ToString(i - 1) \o "/" \o ToString(total)
  \o ", " \o ToString(size) \o " rows per round)"

\* the progress text of round i of total
ProgressMessage(i, total, size) ==
  "Compressing iteratively... (round " \o ToString(i) \o "/" \o ToString(total)
  \o ", " \o ToString(size) \o " rows per round)"

\* the progress callback passed by the dispatcher
onProgress(log, msg) ==
  IF log[Len(log)].type = "thought" /\ log[Len(log)].id = "compress"
  THEN setLastContent(log, msg) ELSE log

\* newContent of a resolved compression request
NewContent(reply) == Trim(reply)

\* a failed batch whose marker replaces the accumulator
RawFallbackAlone(acc, i0, batch) == "\n[Batch " \o ToString(i0) \o " Raw]: " \o JsonOfRows(batch)

\* the accumulator after a failed batch with zero-based index i0
RawFallback(acc, i0, batch) == acc \o "\n[Batch " \o ToString(i0) \o " Raw]: " \o JsonOfRows(batch)

\* observation of a compressed result
CompressedObservation(text) == "Query result (analysed and compressed):\n" \o text

\* observation when compression fails: the first 50 rows
FallbackObservation(data) ==
  "Query result (compression failed, first 50 rows):\n"
  \o JsonOfRows(SubSeq(data, 1, Min(PREVIEW_ROWS, Len(data))))

\* a compression request that is not awaited
AwaitRequestSkipped == "observe"

\* control point while a compression request is awaited
AwaitRequest == "batch"

\* smartCompressData from the head of round i (1-based) of its loop up to its
\* next suspension, and the dispatcher's code after it when it returns or
\* throws.  The result tells where control goes next:
\*   "batch"   a compression request is awaited (request is set)
\*   "observe" the observation text is ready (resultString is set)
\*   "catch"   an error reaches the catch block of the iteration (error is set)
\* progress holds the texts passed to the progress callback on the way.
CompressFrom(log, data, sqlText, acc, i) ==
  LET size == calculateAdaptiveBatchSize(data)
      batches == Batches(data, size)
      total == Len(batches)
      base == [next |-> "observe", steps |-> log, updates |-> 0, acc |-> acc,
               resultString |-> "", request |-> <<>>, error |-> "", progress |-> <<>>]
  IN IF i > total
     THEN [base EXCEPT !.steps = setLastStatus(log, "complete"), !.updates = 1,
                       !.resultString = CompressedObservation(acc)]
     ELSE LET log1 == onProgress(log, ProgressMessage(i, total, size))
              said == <<ProgressMessage(i, total, size)>>
              prior == IF acc = "" THEN NoPriorMarker ELSE acc
          IN IF CanStringify(batches[i])
             THEN [base EXCEPT !.next = AwaitRequest, !.steps = log1, !.updates = 1, !.progress = said,
                               !.request = <<Request("compress", <<>>, sqlText, prior, JsonOfRows(batches[i]))>>]
             ELSE IF CanStringify(SubSeq(data, 1, Min(PREVIEW_ROWS, Len(data))))
             THEN [base EXCEPT !.steps = log1, !.updates = 1, !.progress = said,
                               !.resultString = FallbackObservation(data)]
             ELSE [base EXCEPT !.next = "catch", !.steps = log1, !.updates = 1, !.progress = said,
                               !.error = "Converting circular structure to JSON"]

(***************************************************************************)
(* Tool dispatcher.                                                        *)
(***************************************************************************)
\* a parse failure that leaves the observation text unset
ParseErrorObservationUnset == ""

ParseErrorObservation == "Error: Invalid JSON arguments provided for tool call."
UnknownToolObservation == "Error: unknown tool call"
EmptyDatabaseObservation == "The database is empty. Ask the user to upload an Excel file first."
EmptyResultObservation ==
  "Query result: [] (0 rows). The result is empty! Check whether the WHERE conditions are too strict, use LIKE, and run a partial verification query."
\* an error observation that leaves the message out
SqlErrorObservationBare(error) == "SQL execution error"

SqlErrorObservation(error) == "SQL execution error: " \o error

\* text after "Columns: ": columns.join(", ")
RECURSIVE JoinWith(_, _)
JoinWith(items, sep) ==
  IF items = <<>> THEN ""
  ELSE IF Len(items) = 1 THEN items[1]
  ELSE items[1] \o sep \o JoinWith(Tail(items), sep)

\* a line that leaves the row count out
SchemaLineNoRows(t) ==
  LET sourceInfo == IF t.originalName # "" THEN "(Source_File: " \o t.originalName \o ")" ELSE ""
  IN "[Table_SQL_ID: " \o t.tableName \o " " \o sourceInfo \o "] Columns: " \o JoinWith(t.columns, ", ")

\* one line of the schema listing
SchemaLine(t) ==
  LET sourceInfo == IF t.originalName # "" THEN "(Source_File: " \o t.originalName \o ")" ELSE ""
  IN "[Table_SQL_ID: " \o t.tableName \o " " \o sourceInfo \o ", Rows: " \o ToString(t.rowCount)
     \o "] Columns: " \o JoinWith(t.columns, ", ")

\* the schema listing of get_database_schema
SchemaString(tables) == JoinWith([k \in 1..Len(tables) |-> SchemaLine(tables[k])], "\n")

\* a dispatcher whose last branch is the query tool
ToolKindDefaultSql(name) == IF name = "get_database_schema" THEN "schema" ELSE "sql"

\* an emptiness test that is off by one
ResultEmptyOrSingle(rows) == Len(rows) <= 1

\* rowCount === 0
ResultEmpty(rows) == Len(rows) = 0

\* the branch of the dispatcher a tool name selects
ToolKind(name) ==
  IF name = "get_database_schema" THEN "schema"
  ELSE IF name = "run_sql" THEN "sql"
  ELSE "unknown"

\* the step that announces the compression of the rows
CompressStep(rows) ==
  Step("compress", "thought",
       "Compressing " \o ToString(Len(rows)) \o " rows iteratively; about "
       \o ToString(calculateAdaptiveBatchSize(rows)) \o " rows per round.",
       "streaming", "", NoResult)

\* the tool call the for-of loop is at
CurrentCall == toolCallsBuffer[tcIdx]

\* the catch block of the iteration
Catch(log, message, updates) ==
  /\ steps' = pushStep(log, ErrorStep(message))
  /\ shown' = pushStepShown(log, ErrorStep(message))
  /\ stepUpdates' = stepUpdates + updates + 1
  /\ pc' = AfterCatch /\ outcome' = "error"

\* the for-of loop takes the next element: the action step is appended; a
\* hole of the buffer is undefined and reading its function throws
BeginToolCall ==
  /\ pc = "dispatch"
  /\ IF CurrentCall.hole
     THEN /\ Catch(steps, "Cannot read properties of undefined (reading 'function')", 0)
          /\ UNCHANGED <<fnArgs, resultString, resultData>>
     ELSE /\ steps' = pushStep(steps, Step("action", "action", "parsing...", "streaming",
                                           CurrentCall.name, NoResult))
          /\ shown' = pushStepShown(steps, Step("action", "action", "parsing...", "streaming",
                                                CurrentCall.name, NoResult))
          /\ stepUpdates' = stepUpdates + 1
          /\ fnArgs' = JsonObject(FALSE, "") /\ resultString' = "" /\ resultData' = NoResult
          /\ pc' = "parse" /\ UNCHANGED outcome
  /\ UNCHANGED <<thrown, inputVars, benches, iteration, messages, currentThought, toolCallsBuffer, tcIdx,
                 sql, queryResult, batchIndex, accumulatedResult, inflight, requests,
                 toolCounters, finalAnswers, envVars>>

\* JSON.parse of the argument text and the update of the action step
ParseArguments ==
  /\ pc = "parse"
  /\ LET text == IF CurrentCall.arguments = "" THEN "{}" ELSE CurrentCall.arguments
         parsed == JsonParse(text)
     IN IF parsed.ok
        THEN /\ fnArgs' = parsed
             /\ steps' = setLastStatus(setLastContent(steps, JsonStringify(parsed)), "complete")
             /\ UNCHANGED resultString
        ELSE /\ resultString' = ParseErrorObservation
             /\ steps' = setLastStatus(setLastContent(steps, "Error parsing: " \o CurrentCall.arguments), "error")
             /\ UNCHANGED fnArgs
  /\ stepUpdates' = stepUpdates + 1
  /\ shown' = onStepUpdate(steps')
  /\ pc' = "invoke"
  /\ UNCHANGED <<outcome, thrown, inputVars, benches, iteration, messages, currentThought, toolCallsBuffer,
                 tcIdx, resultData, sql, queryResult, batchIndex, accumulatedResult, inflight,
                 requests, toolCounters, finalAnswers, envVars>>

\* applies the result of CompressFrom
ApplyCompress(r, i) ==
  /\ accumulatedResult' = r.acc
  /\ batchIndex' = i
  /\ IF r.next = "catch"
     THEN /\ Catch(r.steps, r.error, r.updates)
          /\ inflight' = <<>> /\ UNCHANGED <<resultString, compressCalls>>
     ELSE /\ steps' = r.steps /\ stepUpdates' = stepUpdates + r.updates
          /\ shown' = onStepUpdate(r.steps)
          /\ pc' = r.next /\ UNCHANGED outcome
          /\ resultString' = r.resultString
          /\ inflight' = r.request
          /\ compressCalls' = compressCalls + Len(r.request)

\* the dispatch of the parsed call up to the observation text or up to the
\* first compression request
InvokeTool ==
  /\ pc = "invoke"
  /\ IF resultString # ""
     THEN /\ pc' = "observe"
          /\ UNCHANGED <<outcome, steps, stepUpdates, shown, resultString, resultData, sql, queryResult,
                         batchIndex, accumulatedResult, inflight, toolCounters>>
     ELSE IF ToolKind(CurrentCall.name) = "schema"
     THEN /\ resultString' = IF SchemaString(schema) # "" THEN SchemaString(schema)
                             ELSE EmptyDatabaseObservation
          /\ resultData' = SchemaResult(schema)
          /\ schemaLookups' = schemaLookups + 1
          /\ pc' = "observe"
          /\ UNCHANGED <<outcome, steps, stepUpdates, shown, sql, queryResult, batchIndex,
                         accumulatedResult, inflight, compressCalls, engineCalls>>
     ELSE IF ToolKind(CurrentCall.name) = "sql"
     THEN IF fnArgs.kind = "null"
          THEN /\ Catch(steps, "Cannot read properties of null (reading 'query')", 0)
               /\ UNCHANGED <<resultString, resultData, sql, queryResult, batchIndex,
                              accumulatedResult, inflight, toolCounters>>
          ELSE \E engine \in (IF fnArgs.hasQuery THEN EngineOutcomes ELSE UndefinedQueryOutcomes) :
                 LET sqlText == IF fnArgs.hasQuery THEN sanitizeSql(fnArgs.query) ELSE "undefined"
                     result == executeSql(engine)
                 IN /\ sql' = sqlText /\ queryResult' = result
                    /\ resultData' = QueryResultOf(result)
                    /\ engineCalls' = engineCalls + 1
                    /\ UNCHANGED schemaLookups
                    /\ IF result.error # ""
                       THEN /\ resultString' = SqlErrorObservation(result.error)
                            /\ pc' = "observe"
                            /\ UNCHANGED <<outcome, steps, stepUpdates, shown, batchIndex,
                                           accumulatedResult, inflight, compressCalls>>
                       ELSE IF ResultEmpty(result.data)
                       THEN /\ resultString' = EmptyResultObservation
                            /\ pc' = "observe"
                            /\ UNCHANGED <<outcome, steps, stepUpdates, shown, batchIndex,
                                           accumulatedResult, inflight, compressCalls>>
                       ELSE LET log == pushStep(steps, CompressStep(result.data))
                                r == CompressFrom(log, result.data, sqlText, "", 1)
                            IN ApplyCompress([r EXCEPT !.updates = @ + 1], 1)
     ELSE /\ resultString' = UnknownToolObservation
          /\ pc' = "observe"
          /\ UNCHANGED <<outcome, steps, stepUpdates, shown, resultData, sql, queryResult, batchIndex,
                         accumulatedResult, inflight, toolCounters>>
  /\ UNCHANGED <<thrown, inputVars, benches, iteration, messages, currentThought, toolCallsBuffer, tcIdx,
                 fnArgs, requests, finalAnswers, envVars>>

\* the batch the awaited compression request is about
CurrentBatch == Batches(queryResult.data, calculateAdaptiveBatchSize(queryResult.data))[batchIndex]

\* the awaited compression request resolves: the accumulator is replaced
BatchResolve ==
  /\ pc = "batch"
  /\ \E reply \in CompressReplies :
       ApplyCompress(CompressFrom(steps, queryResult.data, sql, NewContent(reply), batchIndex + 1),
                     batchIndex + 1)
  /\ UNCHANGED <<thrown, inputVars, benches, iteration, messages, currentThought, toolCallsBuffer, tcIdx,
                 fnArgs, resultData, sql, queryResult, requests, engineCalls, schemaLookups,
                 finalAnswers, envVars>>

\* the awaited compression request fails: the raw batch is appended
BatchReject ==
  /\ pc = "batch"
  /\ ApplyCompress(CompressFrom(steps, queryResult.data, sql,
                                RawFallback(accumulatedResult, batchIndex - 1, CurrentBatch),
                                batchIndex + 1),
                   batchIndex + 1)
  /\ UNCHANGED <<thrown, inputVars, benches, iteration, messages, currentThought, toolCallsBuffer, tcIdx,
                 fnArgs, resultData, sql, queryResult, requests, engineCalls, schemaLookups,
                 finalAnswers, envVars>>

\* the observation step and the tool message of the current call, and the
\* advance of the for-of loop
PushObservation ==
  /\ pc = "observe"
  /\ steps' = pushStep(steps, Step("obs", "observation", resultString, "complete", "", resultData))
  /\ shown' = pushStepShown(steps, Step("obs", "observation", resultString, "complete", "", resultData))
  /\ stepUpdates' = stepUpdates + 1
  /\ messages' = Append(messages, Message("tool", resultString, <<>>, CurrentCall.id, CurrentCall.name))
  /\ IF tcIdx < Len(toolCallsBuffer)
     THEN tcIdx' = tcIdx + 1 /\ pc' = "dispatch"
     ELSE tcIdx' = tcIdx /\ pc' = AfterToolCalls
  /\ UNCHANGED <<outcome, thrown, inputVars, benches, iteration, currentThought, toolCallsBuffer, fnArgs,
                 resultString, resultData, sql, queryResult, batchIndex, accumulatedResult,
                 inflight, requests, toolCounters, finalAnswers, envVars>>

Next ==
  \/ RunAgent
  \/ LoopExit
  \/ IterationStart
  \/ StreamFail
  \/ StreamDelta
  \/ StreamEnd
  \/ BeginToolCall
  \/ ParseArguments
  \/ InvokeTool
  \/ BatchResolve
  \/ BatchReject
  \/ PushObservation

Spec == Init /\ [][Next]_vars

(***************************************************************************)
(* The batch sizer on its own: calculateAdaptiveBatchSize applied to small *)
(* result sets, and to the totals of a sample with one total raised.       *)
(***************************************************************************)
RowShapes == {"heavy", "light", "cyclic"}

\* the result sets of at most MaxSample rows
DataSets ==
  UNION { { [k \in 1..n |-> Row(k, f[k])] : f \in [1..n -> RowShapes] } : n \in 0..MaxSample }

SizerInit ==
  /\ SessionInit /\ apiKey = "sk-key" /\ schema = <<>> /\ llm = "free"
  /\ sizer \in { [phase |-> "input", data |-> d, totals |-> Totals(d), size |-> 0] : d \in DataSets }
  /\ sanitizer = NoSanitizer /\ runSql = NoRunSql /\ parser = NoParser /\ app = NoApp

\* calculateAdaptiveBatchSize(data)
SizerApply ==
  /\ sizer.phase = "input"
  /\ sizer' = [sizer EXCEPT !.phase = "sized", !.size = calculateAdaptiveBatchSize(sizer.data)]
  /\ UNCHANGED <<sessionVars, sanitizer, runSql, parser, app>>

\* the totals t with the total named m raised
Raised(t, m) ==
  CASE m = "fields" -> [t EXCEPT !.fields = @ + 10]
    [] m = "chars" -> [t EXCEPT !.chars = @ + 1000]
    [] m = "text" -> [t EXCEPT !.text = @ + 1]
    [] m = "long" -> [t EXCEPT !.long = @ + 1]

\* totals a sample can have
Measurable(t) ==
  /\ t.fields <= F_NORM * t.count + 10 /\ t.chars <= L_NORM * t.count + 1000
  /\ t.long <= t.text /\ t.text <= t.cells

\* the sizer on a sample that differs in one total
SizerRaise ==
  /\ sizer.phase \in {"sized", "raised"} /\ sizer.totals.count > 0
  /\ \E m \in {"fields", "chars", "text", "long"} :
       /\ Measurable(Raised(sizer.totals, m))
       /\ sizer' = [sizer EXCEPT !.phase = "raised", !.totals = Raised(sizer.totals, m),
                                 !.size = BatchSizeOf(Raised(sizer.totals, m))]
  /\ UNCHANGED <<sessionVars, sanitizer, runSql, parser, app>>

SizerNext == SizerApply \/ SizerRaise

SizerSpec == SizerInit /\ [][SizerNext]_vars

(***************************************************************************)
(* The sanitizer on its own: sanitizeSql applied to a query, and to its    *)
(* own output.  A query is put together from an alias, an optional string  *)
(* literal and an optional ORDER BY or GROUP BY clause over identifier     *)
(* tokens; the kind of a part records how it was written.                  *)
(***************************************************************************)
Alias(text, kind) == [text |-> text, kind |-> kind]

\* aliases as a model writes them after AS
SanAliases ==
  { Alias("total_sum", "ascii"),
    Alias("~@", "cjk"),
    Alias(DQ \o "~ @" \o DQ, "spaced"),
    Alias("[~@]", "quoted"),
    Alias("[a b]", "quoted"),
    Alias("'x-y'", "other"),
    Alias("'n1'", "stripped") }

\* no second alias
NoAlias == Alias("", "")

\* the type of a CAST around the first column ("" is no CAST)
SanCasts == { "", "INT", "DECIMAL(10,2)" }

\* string literals of a WHERE condition ("" is no condition)
SanLiterals == { "", "'x AS ~'", "'see ORDER BY ~ '" }

\* the clause keyword as written ("" is no clause)
SanClauses == { "", "ORDER BY", "group  by" }

Token(ident, kind, dir) == [ident |-> ident, kind |-> kind, dir |-> dir]

\* identifier tokens of a clause body, with their direction keyword
SanTokens ==
  { Token("~@", "cjk", " ASC"),
    Token("x_~1", "cjk", ""),
    Token("[~@]", "quoted", " desc"),
    Token("~-1", "plain", " DESC") }

\* the token lists of at most MaxTokens tokens
TokenLists == UNION { [1..n -> SanTokens] : n \in 0..MaxTokens }

\* the clause body as written
BodyText(tokens) == JoinWith([k \in 1..Len(tokens) |-> tokens[k].ident \o tokens[k].dir], ", ")

\* the query text
QueryText(alias, second, cast, literal, clause, tokens) ==
  "SELECT " \o (IF cast # "" THEN "CAST(c AS " \o cast \o ")" ELSE "c")
  \o " AS " \o alias.text
  \o (IF second.text # "" THEN ", d AS " \o second.text ELSE "")
  \o " FROM t"
  \o (IF literal # "" THEN " WHERE n = " \o literal ELSE "")
  \o (IF clause # "" THEN " " \o clause \o " " \o BodyText(tokens) ELSE "")

SanitizerInit ==
  /\ SessionInit /\ apiKey = "sk-key" /\ schema = <<>> /\ llm = "free"
  /\ sizer = NoSizer /\ runSql = NoRunSql /\ parser = NoParser /\ app = NoApp
  /\ \E a \in SanAliases, b \in SanAliases \cup {NoAlias}, x \in SanCasts,
        l \in SanLiterals, c \in SanClauses, t \in TokenLists :
       /\ (c = "") => (t = <<>>)
       /\ (l # "") => (c = "")
       /\ (b # NoAlias) => (l = "" /\ c = "")
       /\ (x # "") => (l = "" /\ c = "" /\ b = NoAlias)
       /\ sanitizer = [phase |-> "input", alias |-> a, second |-> b, cast |-> x,
                       literal |-> l, clause |-> c, tokens |-> t,
                       sql |-> QueryText(a, b, x, l, c, t), once |-> "", twice |-> ""]

\* sanitizeSql(sql)
SanitizeOnce ==
  /\ sanitizer.phase = "input"
  /\ sanitizer' = [sanitizer EXCEPT !.phase = "once", !.once = sanitizeSql(sanitizer.sql)]
  /\ UNCHANGED <<sessionVars, sizer, runSql, parser, app>>

\* sanitizeSql(sanitizeSql(sql))
SanitizeAgain ==
  /\ sanitizer.phase = "once"
  /\ sanitizer' = [sanitizer EXCEPT !.phase = "twice", !.twice = sanitizeSql(sanitizer.once)]
  /\ UNCHANGED <<sessionVars, sizer, runSql, parser, app>>

SanitizerNext == SanitizeOnce \/ SanitizeAgain

SanitizerSpec == SanitizerInit /\ [][SanitizerNext]_vars

(***************************************************************************)
(* run_sql on its own: executeSql on what the engine answers, and          *)
(* smartCompressData on the rows, round by round, with the dispatcher's    *)
(* code after it.  priors are the prior-context sections of the prompts    *)
(* sent, settled the accumulator after each settled round, reports the     *)
(* texts passed to the progress callback.                                  *)
(***************************************************************************)
\* n rows of which the first h are heavy
MixedRows(n, h) == [k \in 1..n |-> Row(k, IF k <= h THEN "heavy" ELSE "light")]

\* what the engine may answer: every kind of outcome, and result sets of up
\* to MaxBatchRows rows
AllEngineOutcomes ==
  EngineOutcomes
  \cup { Outcome("throw", "", <<>>), Outcome("undefined", "", <<>>), Outcome("scalar", "", <<>>) }
  \cup { Outcome("rows", "", MixedRows(n, n)) : n \in 1..MaxBatchRows }
  \cup { Outcome("rows", "", MixedRows(n, n - 1)) : n \in 1..MaxBatchRows }

\* texts a compression request may resolve with, a blank one among them
AllCompressReplies == CompressReplies \cup { " \n" }

RunSqlInit ==
  /\ SessionInit /\ apiKey = "sk-key" /\ schema = <<>> /\ llm = "free"
  /\ sizer = NoSizer /\ sanitizer = NoSanitizer /\ parser = NoParser /\ app = NoApp
  /\ runSql \in { [NoRunSql EXCEPT !.phase = "input", !.engine = e] : e \in AllEngineOutcomes }

\* executeSql(sql)
RunSqlExecute ==
  /\ runSql.phase = "input"
  /\ runSql' = [runSql EXCEPT !.phase = "executed", !.result = executeSql(runSql.engine)]
  /\ UNCHANGED <<sessionVars, sizer, sanitizer, parser, app>>

\* applies the result r of CompressFrom for round i
RunSqlApply(r, i, settled) ==
  runSql' = [runSql EXCEPT !.phase = r.next, !.round = i, !.acc = r.acc, !.log = r.steps,
                           !.request = r.request,
                           !.priors = @ \o [k \in 1..Len(r.request) |-> r.request[k].prior],
                           !.settled = settled,
                           !.reports = @ \o r.progress,
                           !.resultString = r.resultString, !.error = r.error]

\* smartCompressData is called on the rows of a result that has some
RunSqlCompress ==
  /\ runSql.phase = "executed"
  /\ runSql.result.error = "" /\ ~ResultEmpty(runSql.result.data)
  /\ RunSqlApply(CompressFrom(<<CompressStep(runSql.result.data)>>, runSql.result.data,
                              FixtureQuery, "", 1), 1, <<>>)
  /\ UNCHANGED <<sessionVars, sizer, sanitizer, parser, app>>

\* the batch the awaited request of the run is about
RunSqlBatch ==
  Batches(runSql.result.data, calculateAdaptiveBatchSize(runSql.result.data))[runSql.round]

\* the awaited compression request resolves
RunSqlResolve ==
  /\ runSql.phase = "batch"
  /\ \E reply \in AllCompressReplies :
       RunSqlApply(CompressFrom(runSql.log, runSql.result.data, FixtureQuery, NewContent(reply),
                                runSql.round + 1),
                   runSql.round + 1, Append(runSql.settled, NewContent(reply)))
  /\ UNCHANGED <<sessionVars, sizer, sanitizer, parser, app>>

\* the awaited compression request fails
RunSqlReject ==
  /\ runSql.phase = "batch"
  /\ LET acc == RawFallback(runSql.acc, runSql.round - 1, RunSqlBatch)
     IN RunSqlApply(CompressFrom(runSql.log, runSql.result.data, FixtureQuery, acc, runSql.round + 1),
                    runSql.round + 1, Append(runSql.settled, acc))
  /\ UNCHANGED <<sessionVars, sizer, sanitizer, parser, app>>

RunSqlNext == RunSqlExecute \/ RunSqlCompress \/ RunSqlResolve \/ RunSqlReject

RunSqlSpec == RunSqlInit /\ [][RunSqlNext]_vars

(***************************************************************************)
(* The streaming response parser on its own: the for-await loop over the   *)
(* deltas of one turn, the completion of the thought step and the rescue.  *)
(***************************************************************************)
\* deltas of one stream
MaxStream == 2

\* a content fragment: its text, the text without closing tokens, the kind
\* and the query of a run_sql(...) pattern written in it, and whether it
\* names the schema tool and holds "()" or the word call
Piece(text, clean, kind, query, schemaName, marker) ==
  [text |-> text, clean |-> clean, kind |-> kind, query |-> query,
   schemaName |-> schemaName, marker |-> marker]

NoPiece == Piece("", "", "", "", FALSE, FALSE)

StreamPieces ==
  { Piece("run_sql('SELECT 1')", "run_sql('SELECT 1')", "quoted", "SELECT 1", FALSE, FALSE),
    Piece("run_sql(" \o BT \o "SELECT 2" \o BT \o ")", "run_sql(" \o BT \o "SELECT 2" \o BT \o ")",
          "backtick", "SELECT 2", FALSE, FALSE),
    Piece("get_database_schema", "get_database_schema", "", "", TRUE, FALSE),
    Piece("()", "()", "", "", FALSE, TRUE),
    Piece(" Please CALL it.", " Please CALL it.", "", "", FALSE, TRUE),
    Piece("The answer is 42.", "The answer is 42.", "", "", FALSE, FALSE),
    Piece("</tool_call>", "", "", "", FALSE, FALSE),
    Piece("a</tool_call>b</tool_call>", "ab", "", "", FALSE, FALSE),
    Piece("</tool_", "</tool_", "", "", FALSE, FALSE),
    Piece("call>", "call>", "", "", FALSE, TRUE) }

\* a delta of the stream together with the description of its content
StreamedDelta(piece, tool_calls) ==
  [content |-> piece.text, tool_calls |-> tool_calls, piece |-> piece]

\* tool-call fragments that split the name and the argument text of a call
NameHead == Fragment(0, CallId(0), "run_", "{" \o DQ \o "query" \o DQ \o ":")
NameTail == Fragment(0, "", "sql", DQ \o "SELECT 1" \o DQ \o "}")
SecondHead == Fragment(1, CallId(1), "get_database_schema", "")
SecondTail == Fragment(1, "", "", "{}")
SparseCall == Fragment(2, CallId(2), "lookup", "{}")

StreamDeltas ==
  { StreamedDelta(p, <<>>) : p \in StreamPieces }
  \cup { StreamedDelta(NoPiece, fs) :
           fs \in { <<NameHead>>, <<NameTail>>, <<SecondHead>>, <<SecondTail, NameTail>>,
                    <<NameHead, SecondHead>>, <<SparseCall>> } }
  \cup { StreamedDelta(Piece("Let me look.", "Let me look.", "", "", FALSE, FALSE), <<NameTail>>) }

ParserInit ==
  /\ SessionInit /\ apiKey = "sk-key" /\ schema = <<>> /\ llm = "free"
  /\ sizer = NoSizer /\ sanitizer = NoSanitizer /\ runSql = NoRunSql /\ app = NoApp
  /\ parser = [NoParser EXCEPT !.phase = "stream",
                               !.steps = pushStep(<<>>, Step("step", "thought", "", "streaming", "", NoResult))]

\* the body of the for-await loop for one delta
ParserDelta ==
  /\ parser.phase = "stream" /\ Len(parser.deltas) < MaxStream
  /\ \E d \in StreamDeltas :
       LET thought == IF d.content # "" THEN parser.currentThought \o CleanContent(d.content)
                      ELSE parser.currentThought
           log == IF d.content # "" THEN updateLastStep(parser.steps, thought, "streaming")
                  ELSE parser.steps
       IN parser' = [parser EXCEPT
                       !.deltas = Append(@, d),
                       !.currentThought = thought,
                       !.steps = log,
                       !.updates = IF d.content # "" THEN Append(@, onStepUpdate(log)) ELSE @,
                       !.toolCallsBuffer = MergeFragments(@, d.tool_calls)]
  /\ UNCHANGED <<sessionVars, sizer, sanitizer, runSql, app>>

\* the stream ends: the thought step is completed, the rescue is tried and
\* the turn is a tool turn, the final answer or an empty turn
ParserEnd ==
  /\ parser.phase = "stream"
  /\ LET log == updateLastStep(parser.steps, parser.currentThought, "complete")
         manualCall == detectManualToolCall(parser.currentThought)
         buf == IF RescueDue(parser.toolCallsBuffer) /\ ~manualCall.hole
                THEN Append(parser.toolCallsBuffer, manualCall) ELSE parser.toolCallsBuffer
         turn == IF HasToolCalls(buf) THEN "tool"
                 ELSE IF FinalAnswerDue(parser.currentThought) THEN "final" ELSE "empty"
     IN parser' = [parser EXCEPT
                     !.phase = "ended",
                     !.steps = log,
                     !.updates = Append(@, onStepUpdate(log)),
                     !.toolCallsBuffer = buf,
                     !.turn = turn,
                     !.finalAnswer = IF turn = "final" THEN parser.currentThought ELSE ""]
  /\ UNCHANGED <<sessionVars, sizer, sanitizer, runSql, app>>

ParserNext == ParserDelta \/ ParserEnd

StreamSpec == ParserInit /\ [][ParserNext]_vars

(***************************************************************************)
(* The application around the agent: the tables registered in the SQL      *)
(* engine, the schema list passed to runAgent, file upload and clear data. *)
(***************************************************************************)
\* handler invocations looked at, and files of one upload
MaxEvents == 3
MaxFiles == 2

\* what processExcelFile makes of a file: "sheet" resolves, "empty" (a sheet
\* without rows) and "corrupt" (not a workbook) reject
FileKinds == {"sheet", "empty", "corrupt"}

\* the FileList of one upload
FileLists == UNION { [1..n -> FileKinds] : n \in 1..MaxFiles }

\* the n-th table name made: t_<timestamp>_<random> is taken as fresh
TableName(n) == "t_" \o ToString(n)

\* the ProcessedFile that processExcelFile resolves with
ProcessedFile(n) == [name |-> TableName(n), originalName |-> "sheet", columns |-> <<"id">>,
                     data |-> <<Row(1, "light")>>]

\* registerTable: the table is dropped if it exists, created and filled
registerTable(engine, table) == (engine \ {table.name}) \cup {table.name}

\* getDatabaseSchema(tables)
getDatabaseSchema(tables) ==
  [k \in DOMAIN tables |->
     Table(tables[k].name, tables[k].originalName, tables[k].columns, Len(tables[k].data))]

\* the updater of setTables: an entry of the same table name is replaced,
\* another one is appended
RECURSIVE Combined(_, _)
Combined(prev, updated) ==
  IF updated = <<>> THEN prev
  ELSE LET newT == Head(updated)
           found == {k \in DOMAIN prev : prev[k].tableName = newT.tableName}
       IN Combined(IF found # {} THEN [prev EXCEPT ![CHOOSE k \in found : \A j \in found : k <= j] = newT]
                   ELSE Append(prev, newT),
                   Tail(updated))

\* what the engine answers to SELECT * FROM [name] LIMIT 3
EngineSelect(engine, name) ==
  IF name \in engine THEN Outcome("rows", "", <<Row(1, "light")>>)
  ELSE Outcome("throw", "Table does not exist: " \o name, <<>>)

\* one entry of the self-check report
DiagReport(engine, t) ==
  LET res == executeSql(EngineSelect(engine, t.tableName))
  IN [sqlName |-> t.tableName, isHealthy |-> (res.error = "" /\ Len(res.data) > 0)]

AppInit ==
  /\ SessionInit /\ apiKey = "sk-key" /\ schema = <<>> /\ llm = "free"
  /\ sizer = NoSizer /\ sanitizer = NoSanitizer /\ runSql = NoRunSql /\ parser = NoParser
  /\ app = [NoApp EXCEPT !.phase = "idle"]

\* handleFileUpload is called: up to the first await
HandleFileUpload ==
  /\ app.phase = "idle" /\ app.events < MaxEvents
  /\ \E files \in FileLists :
       app' = [app EXCEPT !.phase = "upload", !.files = files, !.i = 0, !.newTables = <<>>,
                          !.isLoadingFile = TRUE, !.events = @ + 1]
  /\ UNCHANGED <<sessionVars, sizer, sanitizer, runSql, parser>>

\* processExcelFile(files[i]) resolves: the table is registered and kept
FileProcessed ==
  /\ app.phase = "upload" /\ app.i < Len(app.files) /\ app.files[app.i + 1] = "sheet"
  /\ LET processed == ProcessedFile(app.made + 1)
     IN app' = [app EXCEPT !.made = @ + 1,
                           !.engine = registerTable(@, processed),
                           !.newTables = Append(@, processed),
                           !.i = @ + 1]
  /\ UNCHANGED <<sessionVars, sizer, sanitizer, runSql, parser>>

\* processExcelFile(files[i]) rejects: the catch and the finally block
FileRejected ==
  /\ app.phase = "upload" /\ app.i < Len(app.files) /\ app.files[app.i + 1] # "sheet"
  /\ app' = [app EXCEPT !.phase = "idle", !.alerts = @ + 1, !.isLoadingFile = FALSE]
  /\ UNCHANGED <<sessionVars, sizer, sanitizer, runSql, parser>>

\* the loop over the files is through: the schema list is extended, the
\* self-check is run and reported
UploadComplete ==
  /\ app.phase = "upload" /\ app.i = Len(app.files)
  /\ LET updatedSchema == getDatabaseSchema(app.newTables)
     IN app' = [app EXCEPT !.phase = "idle",
                           !.tables = Combined(@, updatedSchema),
                           !.reports = [k \in DOMAIN updatedSchema |-> DiagReport(app.engine, updatedSchema[k])],
                           !.messages = Append(@, "loaded"),
                           !.isLoadingFile = FALSE]
  /\ UNCHANGED <<sessionVars, sizer, sanitizer, runSql, parser>>

\* handleClearData; taken between uploads
HandleClearData ==
  /\ app.phase = "idle" /\ app.events < MaxEvents
  /\ app' = [app EXCEPT !.tables = <<>>, !.messages = Append(@, "cleared"), !.events = @ + 1]
  /\ UNCHANGED <<sessionVars, sizer, sanitizer, runSql, parser>>

AppNext == HandleFileUpload \/ FileProcessed \/ FileRejected \/ UploadComplete \/ HandleClearData

AppSpec == AppInit /\ [][AppNext]_vars

(***************************************************************************)
(* Observations of a session used by the properties below.                 *)
(***************************************************************************)
\* positions of the thought steps appended by the catch block
ErrorThoughtSteps == {k \in DOMAIN steps : steps[k].type = "thought" /\ steps[k].status = "error"}

\* positions of the thought steps that open an iteration
IterationSteps == {k \in DOMAIN steps : steps[k].id = "step"}

\* positions of the assistant messages that carry tool calls
ToolTurns == {k \in DOMAIN messages : messages[k].role = "assistant" /\ messages[k].tool_calls # <<>>}

\* positions of the tool messages
ToolMessages == {k \in DOMAIN messages : messages[k].role = "tool"}

\* the for-of loop over the tool calls of the turn is running
Dispatching == pc \in {"dispatch", "parse", "invoke", "batch", "observe"}

\* the current tool call failed to parse: its action step ended in error
ParseFailed ==
  /\ pc \in {"invoke", "observe"}
  /\ steps[Len(steps)].type = "action" /\ steps[Len(steps)].status = "error"

\* the control point after the last tool call of a turn or the next call
Advances ==
  IF tcIdx < Len(toolCallsBuffer)
  THEN pc' = "dispatch" /\ tcIdx' = tcIdx + 1
  ELSE pc' = "loop" /\ tcIdx' = tcIdx

\* a call synthesized by the rescue
Rescued(call) == call.id \in {"manual-sql", "manual-schema"}

\* the text run_sql("SELECT * FROM t_1")
FixtureCallText == "run_sql(" \o DQ \o "SELECT * FROM t_1" \o DQ \o ")"

\* least position at which t occurs in s, 0 if none
FirstOccurrence(s, t) ==
  LET at == {k \in 1..Len(s) : StartsWithAt(s, k, t)}
  IN IF at = {} THEN 0 ELSE CHOOSE k \in at : \A j \in at : k <= j

\* the stream of the turn ends normally in this step
TurnEnds == pc = "stream" /\ pc' # "stream" /\ outcome' # "error"

(***************************************************************************)
(* C1                                                                      *)
(***************************************************************************)
C1_Counted ==
  /\ iteration \in 0..MAX_ITERATIONS
  /\ requests = iteration /\ requests <= MAX_ITERATIONS
  /\ Cardinality(IterationSteps) = iteration
  /\ outcome = "budget" =>
       /\ pc = "done" /\ iteration = MAX_ITERATIONS
       /\ Cardinality(ToolTurns) = MAX_ITERATIONS
       /\ finalAnswers = <<>> /\ ErrorThoughtSteps = {}
  /\ Cardinality(ToolTurns) = iteration => finalAnswers = <<>>
  /\ (pc = "done" /\ apiKey # "" /\ Cardinality(ToolTurns) = iteration /\ ErrorThoughtSteps = {})
       => outcome = "budget"

C1_Step ==
  /\ iteration' # iteration => iteration' = iteration + 1 /\ requests' = requests + 1
  /\ (pc = "loop" /\ iteration = MAX_ITERATIONS) =>
       /\ pc' = "done" /\ outcome' = "budget"
       /\ UNCHANGED <<iteration, requests, steps, messages, finalAnswers>>

\* C1: the iteration counter grows by exactly one per iteration and stays
\* within 0..50, one streaming request is opened per iteration (so at most
\* 50), and at the loop head with the counter at 50 the only step is the
\* return; a session in which every turn was a tool turn and no error was
\* caught ends there, after 50 tool turns, with no final answer and no error
\* step.
C1_BoundedIterations == []C1_Counted /\ [][C1_Step]_vars

C1_Witness ==
  /\ pc = "done" /\ outcome = "budget" /\ iteration = MAX_ITERATIONS
  /\ Cardinality(ToolTurns) = MAX_ITERATIONS /\ finalAnswers = <<>>

(***************************************************************************)
(* C2                                                                      *)
(***************************************************************************)
\* C2: with an empty credential the call is rejected in its first step with
\* an error for the caller, and at no time has an iteration run, a model
\* request been opened, a step been appended or a callback been invoked.
C2_MissingCredentialRejected ==
  apiKey = "" =>
    /\ pc \in {"idle", "done"}
    /\ pc = "done" => outcome = "rejected" /\ thrown = "API Key is not configured"
    /\ iteration = 0 /\ requests = 0 /\ compressCalls = 0 /\ inflight = <<>>
    /\ steps = <<>> /\ stepUpdates = 0 /\ finalAnswers = <<>>

C2_Witness == apiKey = "" /\ pc = "done" /\ outcome = "rejected" /\ thrown # ""

(***************************************************************************)
(* C3                                                                      *)
(***************************************************************************)
C3_Fired ==
  /\ Len(finalAnswers) <= 1
  /\ outcome = "final" => finalAnswers # <<>>
  /\ finalAnswers # <<>> =>
       /\ pc = "done" /\ outcome = "final"
       /\ toolCallsBuffer = <<>> /\ Cardinality(ToolTurns) < iteration
       /\ currentThought # "" /\ finalAnswers = <<currentThought>>
       /\ messages[Len(messages)].role = "assistant"
       /\ messages[Len(messages)].content = currentThought
       /\ messages[Len(messages)].tool_calls = <<>>
       /\ steps[Len(steps)].id = "step" /\ steps[Len(steps)].status = "complete"
       /\ steps[Len(steps)].content = currentThought
       /\ requests = iteration /\ inflight = <<>>

\* C3: the final-answer callback fires at most once; when it has fired, the
\* turn of the current iteration had no tool calls and a non-empty thought,
\* that text is the last message of the history (an assistant message), the
\* thought step of the iteration is the last step, no request is open, and
\* the session takes no further step.
C3_FinalAnswerOnce == []C3_Fired /\ [][finalAnswers = <<>>]_vars

C3_Witness ==
  /\ pc = "done" /\ outcome = "final" /\ finalAnswers = <<"The answer is 42.">>
  /\ messages[Len(messages)].content = "The answer is 42."

(***************************************************************************)
(* C4                                                                      *)
(***************************************************************************)
\* messages of the errors raised while streaming or dispatching
RaisedMessages ==
  { "Connection error.",
    "Cannot read properties of undefined (reading 'function')",
    "Cannot read properties of null (reading 'query')",
    "Converting circular structure to JSON" }

C4_Caught ==
  /\ Cardinality(ErrorThoughtSteps) <= 1
  /\ (outcome = "error") = (ErrorThoughtSteps # {})
  /\ ErrorThoughtSteps # {} =>
       /\ ErrorThoughtSteps = {Len(steps)}
       /\ \E m \in RaisedMessages : steps[Len(steps)].content = "Agent Error: " \o m
       /\ pc = "done" /\ thrown = "" /\ finalAnswers = <<>>
       /\ inflight = <<>> /\ requests = iteration

\* a tool call that is a hole of the buffer, or a run_sql call whose
\* arguments parsed to null, raises in the dispatcher
C4_Raises ==
  \/ pc = "dispatch" /\ toolCallsBuffer[tcIdx].hole
  \/ /\ pc = "invoke" /\ resultString = ""
     /\ toolCallsBuffer[tcIdx].name = "run_sql" /\ fnArgs.kind = "null"

C4_Step ==
  /\ outcome # "error"
  /\ C4_Raises => outcome' = "error" /\ Len(steps') = Len(steps) + 1 /\ pc' = "done"

\* C4: an error raised while streaming or dispatching is caught: there is
\* exactly one error-status thought step, it carries the error message and
\* is the last step, the session is over with no request open and no final
\* answer fired, and it takes no further step.
C4_ErrorEndsSession == []C4_Caught /\ [][C4_Step]_vars

C4_Witness ==
  /\ pc = "done" /\ outcome = "error" /\ Cardinality(ToolTurns) = iteration
  /\ steps[Len(steps)].content = "Agent Error: Cannot read properties of null (reading 'query')"

(***************************************************************************)
(* C5                                                                      *)
(***************************************************************************)
C5_Step ==
  /\ (pc = "parse" /\ ~JsonParse(IF toolCallsBuffer[tcIdx].arguments = "" THEN "{}"
                                  ELSE toolCallsBuffer[tcIdx].arguments).ok) =>
       /\ steps[Len(steps)].type = "action" /\ Len(steps') = Len(steps)
       /\ steps' = [steps EXCEPT ![Len(steps)].status = "error",
                                 ![Len(steps)].content =
                                    "Error parsing: " \o toolCallsBuffer[tcIdx].arguments]
       /\ pc' = "invoke"
       /\ UNCHANGED <<messages, toolCounters, inflight, requests, outcome>>
  /\ (ParseFailed /\ pc = "invoke") =>
       /\ pc' = "observe"
       /\ UNCHANGED <<steps, messages, toolCounters, inflight, requests, outcome>>
  /\ (ParseFailed /\ pc = "observe") =>
       /\ steps' = Append(steps, [id |-> "obs", type |-> "observation",
                                  content |-> "Error: Invalid JSON arguments provided for tool call.",
                                  status |-> "complete", toolName |-> "", result |-> NoResult])
       /\ messages' = Append(messages, [role |-> "tool",
                                        content |-> "Error: Invalid JSON arguments provided for tool call.",
                                        tool_calls |-> <<>>,
                                        tool_call_id |-> toolCallsBuffer[tcIdx].id,
                                        name |-> toolCallsBuffer[tcIdx].name])
       /\ Advances
       /\ UNCHANGED <<toolCounters, inflight, requests, outcome>>
  /\ (pc = "loop" /\ iteration < MAX_ITERATIONS) => pc' = "stream" /\ iteration' = iteration + 1

\* C5: when the argument text of a tool call does not parse, the action
\* step of the call (the one appended for it) ends in error with the raw
\* text, the dispatch of the call changes no tool counter and opens no
\* request, the observation step and the tool message with the parse-error
\* text are appended, and control goes to the next call of the turn or, after
\* the last one, to the loop head, from where the next iteration starts.
C5_ParseFailureSkipsTool == [][C5_Step]_vars

C5_Witness ==
  \E k \in DOMAIN steps :
    /\ k + 2 <= Len(steps)
    /\ steps[k].type = "action" /\ steps[k].status = "error"
    /\ steps[k].content = "Error parsing: {bad"
    /\ steps[k + 1].type = "observation"
    /\ steps[k + 1].content = "Error: Invalid JSON arguments provided for tool call."
    /\ steps[k + 2].type = "action"
    /\ engineCalls = 0

(***************************************************************************)
(* C6                                                                      *)
(***************************************************************************)
\* C6 (as stated): a turn with neither tool calls nor thought text does not
\* end the session, so a session that is over without a final answer, without
\* an error step and with a credential has used up its 50 iterations.
C6_EmptyTurnRetries ==
  (pc = "done" /\ apiKey # "" /\ finalAnswers = <<>> /\ ErrorThoughtSteps = {})
    => iteration = MAX_ITERATIONS

(***************************************************************************)
(* C7                                                                      *)
(***************************************************************************)
\* C7 (as stated): every tool message of a call whose name is neither
\* get_database_schema nor run_sql carries the unknown-tool text.
C7_UnknownToolAlways ==
  \A k \in ToolMessages :
    messages[k].name \notin {"get_database_schema", "run_sql"}
      => messages[k].content = "Error: unknown tool call"

C7_Step ==
  /\ (pc = "invoke" /\ resultString = ""
      /\ toolCallsBuffer[tcIdx].name \notin {"get_database_schema", "run_sql"}) =>
       /\ resultString' = "Error: unknown tool call"
       /\ pc' = "observe"
       /\ UNCHANGED <<steps, messages, toolCounters, inflight, requests, outcome>>
  /\ (pc = "observe" /\ resultString = "Error: unknown tool call") =>
       /\ steps' = Append(steps, [id |-> "obs", type |-> "observation",
                                  content |-> "Error: unknown tool call",
                                  status |-> "complete", toolName |-> "", result |-> NoResult])
       /\ messages' = Append(messages, [role |-> "tool", content |-> "Error: unknown tool call",
                                        tool_calls |-> <<>>,
                                        tool_call_id |-> toolCallsBuffer[tcIdx].id,
                                        name |-> toolCallsBuffer[tcIdx].name])
       /\ Advances
       /\ UNCHANGED <<toolCounters, inflight, requests, outcome>>
  /\ (pc = "loop" /\ iteration < MAX_ITERATIONS) => pc' = "stream" /\ requests' = requests + 1

C7_Observed ==
  \A k \in ToolMessages :
    messages[k].name \notin {"get_database_schema", "run_sql"}
      => messages[k].content \in { "Error: unknown tool call",
                                   "Error: Invalid JSON arguments provided for tool call." }

\* C7 (amended): a tool call with a name other than the two tools whose
\* argument text parsed gets the unknown-tool text as observation, with no
\* tool counter changed and no request opened; one observation step and one
\* tool message are appended, and control goes to the next call of the turn
\* or to the loop head, from where the next iteration starts.  The tool
\* message of such a name carries the unknown-tool text or, when the
\* arguments did not parse, the parse-error text.
C7_UnknownToolParsed == []C7_Observed /\ [][C7_Step]_vars

C7_Witness ==
  /\ pc = "stream" /\ iteration = 2
  /\ \E k \in ToolMessages :
       messages[k].name = "lookup" /\ messages[k].content = "Error: unknown tool call"

(***************************************************************************)
(* C8                                                                      *)
(***************************************************************************)
\* the action and observation steps of the log, in order
DispatchSteps == SelectSeq(steps, LAMBDA st : st.type \in {"action", "observation"})

\* tool calls of the turn at message position a whose tool message is due
Completed(a) ==
  IF a = Len(messages) THEN 0
  ELSE IF \E b \in ToolTurns : b > a THEN Len(messages[a].tool_calls)
  ELSE IF Dispatching \/ outcome = "error" THEN Len(messages) - a
  ELSE Len(messages[a].tool_calls)

C8_Sequential ==
  /\ Len(inflight) <= 1
  /\ inflight # <<>> =>
       \/ pc = "stream" /\ inflight[1].kind = "stream"
       \/ pc = "batch" /\ inflight[1].kind = "compress"
  /\ \A k \in DOMAIN DispatchSteps :
       DispatchSteps[k].type = IF k % 2 = 1 THEN "action" ELSE "observation"
  /\ Cardinality(ToolMessages) = Len(DispatchSteps) \div 2
  /\ pc \in {"loop", "stream"} => Len(DispatchSteps) % 2 = 0
  /\ \A a \in ToolTurns :
       /\ a + Completed(a) <= Len(messages)
       /\ \A j \in 1..Completed(a) :
            /\ messages[a + j].role = "tool"
            /\ messages[a + j].tool_call_id = messages[a].tool_calls[j].id
       /\ (a + Completed(a) < Len(messages)) =>
            messages[a + Completed(a) + 1].role = "assistant"
  /\ Dispatching =>
       \E a \in ToolTurns :
         /\ messages[a].tool_calls = toolCallsBuffer
         /\ Len(messages) = a + tcIdx - 1

C8_Step ==
  /\ engineCalls' # engineCalls => inflight = <<>> /\ pc = "invoke"
  /\ requests' # requests => inflight = <<>> /\ pc = "loop"
  /\ compressCalls' # compressCalls => Len(inflight') = 1 /\ pc \in {"invoke", "batch"}

\* C8: at most one model request is open at any moment and the engine runs
\* only while none is; action and observation steps alternate in the log,
\* every tool message follows the assistant message of its turn in buffer
\* order, one per finished call, and a streaming request is opened only from
\* the loop head, when every call of the previous turn has its observation
\* step and tool message.
C8_OneCallAtATime == []C8_Sequential /\ [][C8_Step]_vars

C8_Witness ==
  /\ pc = "batch" /\ Len(inflight) = 1 /\ inflight[1].kind = "compress"
  /\ Len(toolCallsBuffer) = 2 /\ tcIdx = 1

(***************************************************************************)
(* C9                                                                      *)
(***************************************************************************)
C9_OnlyWithoutStructured ==
  /\ \A k \in DOMAIN toolCallsBuffer : Rescued(toolCallsBuffer[k]) => Len(toolCallsBuffer) = 1
  /\ (Dispatching /\ Rescued(toolCallsBuffer[1])) =>
       toolCallsBuffer[1] = detectManualToolCall(currentThought)

C9_StepAsStated ==
  /\ (TurnEnds /\ toolCallsBuffer # <<>>) => toolCallsBuffer' = toolCallsBuffer
  /\ (TurnEnds /\ toolCallsBuffer = <<>> /\ Includes(currentThought, FixtureCallText)) =>
       /\ Len(toolCallsBuffer') = 1
       /\ toolCallsBuffer'[1].name = "run_sql"
       /\ JsonParse(toolCallsBuffer'[1].arguments) = JsonObject(TRUE, "SELECT * FROM t_1")

\* C9 (as stated): a turn that ends with structured calls keeps its buffer,
\* and a turn that ends with none and a thought containing
\* run_sql("SELECT * FROM t_1") gets exactly one run_sql call whose argument
\* text parses to that query.
C9_RescueAsStated == []C9_OnlyWithoutStructured /\ [][C9_StepAsStated]_vars

C9_Step ==
  /\ (TurnEnds /\ toolCallsBuffer # <<>>) => toolCallsBuffer' = toolCallsBuffer
  /\ (TurnEnds /\ toolCallsBuffer = <<>>
      /\ FirstOccurrence(currentThought, "run_sql") > 0
      /\ StartsWithAt(currentThought, FirstOccurrence(currentThought, "run_sql"), FixtureCallText)) =>
       /\ Len(toolCallsBuffer') = 1
       /\ toolCallsBuffer'[1].name = "run_sql"
       /\ JsonParse(toolCallsBuffer'[1].arguments) = JsonObject(TRUE, "SELECT * FROM t_1")
       /\ pc' = "dispatch"
  /\ (pc = "parse" /\ Rescued(toolCallsBuffer[tcIdx]) /\ toolCallsBuffer[tcIdx].name = "run_sql") =>
       fnArgs' = JsonParse(toolCallsBuffer[tcIdx].arguments) /\ fnArgs'.hasQuery

\* C9 (amended): a rescued call is the only call of its turn, so a turn with
\* a structured call gets none; and a turn that ends with no structured call
\* and a thought whose first occurrence of run_sql is
\* run_sql("SELECT * FROM t_1") gets exactly one run_sql call, whose argument
\* text the dispatcher parses to query = SELECT * FROM t_1.
C9_RescueLeftmost == []C9_OnlyWithoutStructured /\ [][C9_Step]_vars

C9_Witness ==
  /\ pc = "invoke" /\ Len(toolCallsBuffer) = 1 /\ toolCallsBuffer[1].id = "manual-sql"
  /\ StartsWithAt(currentThought, FirstOccurrence(currentThought, "run_sql"), FixtureCallText)
  /\ fnArgs = JsonObject(TRUE, "SELECT * FROM t_1")

(***************************************************************************)
(* C10                                                                     *)
(***************************************************************************)
C10_Step ==
  /\ Len(steps') >= Len(steps)
  /\ \A k \in DOMAIN steps :
       /\ k < Len(steps) => steps'[k] = steps[k]
       /\ steps[k].status \in {"complete", "error"} => steps'[k] = steps[k]
       /\ steps'[k].id = steps[k].id /\ steps'[k].type = steps[k].type

\* C10: every step keeps its position and identity, every step but the last
\* of the log is left as it is, and a step whose status is complete or error
\* is left as it is too.
C10_AppendOnlyLog == [][C10_Step]_vars

C10_Witness ==
  /\ Len(steps) >= 4
  /\ steps[Len(steps)].id = "compress" /\ steps[Len(steps)].status = "complete"
  /\ steps[1].status = "complete" /\ steps[2].status = "complete"

(***************************************************************************)
(* C11                                                                     *)
(***************************************************************************)
\* the tool messages of the history and the observation steps of the log
ToolMessageSeq == SelectSeq(messages, LAMBDA m : m.role = "tool")
ObservationSeq == SelectSeq(steps, LAMBDA st : st.type = "observation")

C11_History ==
  /\ (pc # "idle" /\ apiKey # "") =>
       /\ Len(messages) >= 2
       /\ messages[1].role = "system" /\ messages[1].content = "SYSTEM"
       /\ messages[2].role = "user" /\ messages[2].content = "How many rows?"
       /\ \A k \in 3..Len(messages) : messages[k].role \in {"assistant", "tool"}
  /\ Cardinality(ToolTurns) <= iteration
  /\ \A a \in ToolTurns :
       /\ a + Completed(a) <= Len(messages)
       /\ \A j \in 1..Completed(a) :
            /\ messages[a + j].role = "tool"
            /\ messages[a + j].tool_call_id = messages[a].tool_calls[j].id
            /\ messages[a + j].name = messages[a].tool_calls[j].name
       /\ (a + Completed(a) < Len(messages)) => messages[a + Completed(a) + 1].role = "assistant"
  /\ Len(ToolMessageSeq) = Len(ObservationSeq)
  /\ \A k \in DOMAIN ToolMessageSeq : ToolMessageSeq[k].content = ObservationSeq[k].content
  /\ Dispatching =>
       \E a \in ToolTurns :
         messages[a].tool_calls = toolCallsBuffer /\ Len(messages) = a + tcIdx - 1
  /\ pc = "stream" =>
       /\ Len(inflight) = 1 /\ inflight[1].history = messages
       /\ \A a \in ToolTurns : Completed(a) = Len(messages[a].tool_calls)

C11_Step ==
  /\ Len(messages') >= Len(messages)
  /\ \A k \in DOMAIN messages : messages'[k] = messages[k]
  /\ Len(messages') <= Len(messages) + (IF pc = "idle" THEN 2 ELSE 1)
  /\ (TurnEnds /\ toolCallsBuffer' # <<>>) =>
       /\ Len(messages') = Len(messages) + 1
       /\ messages'[Len(messages')].role = "assistant"
       /\ messages'[Len(messages')].tool_calls = toolCallsBuffer'
       /\ pc' = "dispatch" /\ tcIdx' = 1 /\ steps' = [steps EXCEPT ![Len(steps)].status = "complete"]

\* C11: the history starts as [system, user] and only grows at its end; a
\* tool turn appends one assistant message with all its calls before the
\* first call is dispatched, and each finished call appends one tool message
\* with the call's identifier, its name and the text of its observation
\* step, in buffer order; when a streaming request is open, its history is
\* the accumulated sequence and every tool call in it has its tool message.
C11_HistoryAppendOnly == []C11_History /\ [][C11_Step]_vars

C11_Witness ==
  /\ pc = "stream" /\ iteration = 2 /\ Len(ToolMessageSeq) = 2
  /\ Len(messages) = 5 /\ Len(messages[3].tool_calls) = 2
  /\ inflight[1].history = messages

(***************************************************************************)
(* C12                                                                     *)
(***************************************************************************)
C12_Step ==
  /\ steps' # steps => stepUpdates' > stepUpdates /\ shown' = steps'
  /\ stepUpdates' >= stepUpdates + (Len(steps') - Len(steps))
  /\ stepUpdates' >= stepUpdates
  /\ stepUpdates' > stepUpdates => shown' = steps'
  /\ stepUpdates' = stepUpdates => shown' = shown
  /\ Len(shown') >= Len(shown)
  /\ \A k \in DOMAIN shown : shown'[k].id = shown[k].id

\* C12: whenever a step changes the log (an append or an in-place write),
\* the callback is invoked in that step, at least once per appended step,
\* and the snapshot of its last invocation is the log after the step; at
\* every control point the last snapshot equals the log, and from one
\* snapshot to the next the length never decreases and the steps keep their
\* positions.
C12_UpdatesFollowLog == [](shown = steps /\ stepUpdates >= Len(steps)) /\ [][C12_Step]_vars

C12_Witness ==
  /\ pc = "batch" /\ steps[Len(steps)].id = "compress"
  /\ steps[Len(steps)].content = ProgressMessage(1, 2, 5)
  /\ shown = steps /\ stepUpdates = Len(steps) + 4

(***************************************************************************)
(* C13                                                                     *)
(***************************************************************************)
\* the batches of the fold in progress
FoldBatches == Batches(queryResult.data, calculateAdaptiveBatchSize(queryResult.data))

\* the accumulator after the failure of the awaited batch
FailedAccumulator ==
  accumulatedResult \o "\n[Batch " \o ToString(batchIndex - 1) \o " Raw]: "
    \o JsonOfRows(FoldBatches[batchIndex])

\* what a settled batch leaves besides the accumulator: the next batch is
\* requested with the accumulator as prior context, or the fold returns it
FoldGoesOn ==
  /\ outcome' = outcome /\ batchIndex' = batchIndex + 1
  /\ IF batchIndex < Len(FoldBatches)
     THEN /\ pc' = "batch" /\ compressCalls' = compressCalls + 1
          /\ Len(inflight') = 1 /\ inflight'[1].kind = "compress"
          /\ inflight'[1].batchJson = JsonOfRows(FoldBatches[batchIndex + 1])
          /\ inflight'[1].prior = IF accumulatedResult' = "" THEN NoPriorMarker
                                  ELSE accumulatedResult'
     ELSE /\ pc' = "observe" /\ compressCalls' = compressCalls /\ inflight' = <<>>
          /\ resultString' = "Query result (analysed and compressed):\n" \o accumulatedResult'

C13_Fold ==
  pc = "batch" =>
    /\ batchIndex \in 1..Len(FoldBatches)
    /\ Len(inflight) = 1 /\ inflight[1].batchJson = JsonOfRows(FoldBatches[batchIndex])

SqlDue ==
  /\ pc = "invoke" /\ resultString = ""
  /\ toolCallsBuffer[tcIdx].name = "run_sql" /\ fnArgs.kind # "null"

\* the current call ran its query without an engine error
QueryDone == resultData.kind = "query" /\ queryResult.error = ""

C14_Step ==
  SqlDue =>
    /\ engineCalls' = engineCalls + 1
    /\ (queryResult'.error = "" /\ Len(queryResult'.data) = 0) =>
         /\ resultString' = EmptyResultObservation /\ pc' = "observe"
         /\ steps' = steps /\ compressCalls' = compressCalls /\ inflight' = <<>>
    /\ (queryResult'.error = "" /\ Len(queryResult'.data) > 0) =>
         /\ Len(steps') > Len(steps) /\ steps'[Len(steps) + 1].id = "compress"
         /\ LET first == Batches(queryResult'.data,
                                 calculateAdaptiveBatchSize(queryResult'.data))[1]
            IN IF CanStringify(first)
               THEN /\ pc' = "batch" /\ compressCalls' = compressCalls + 1
                    /\ inflight'[1].batchJson = JsonOfRows(first)
                    /\ inflight'[1].prior = NoPriorMarker
               ELSE pc' \in {"observe", "done"} /\ compressCalls' = compressCalls

C14_Observed ==
  /\ (pc = "observe" /\ QueryDone /\ Len(queryResult.data) = 0) =>
       /\ resultString = EmptyResultObservation
       /\ steps[Len(steps)].type = "action"
  /\ (pc = "observe" /\ QueryDone /\ Len(queryResult.data) > 0) =>
       /\ steps[Len(steps)].id = "compress"
       /\ \/ /\ resultString = "Query result (analysed and compressed):\n" \o accumulatedResult
             /\ batchIndex = Len(FoldBatches) + 1
             /\ steps[Len(steps)].status = "complete"
          \/ /\ ~CanStringify(queryResult.data)
             /\ StartsWithAt(resultString, 1, "Query result (compression failed")

\* C14 (as stated): the observation of a run_sql call with a non-empty
\* result and no engine error is the compressed text.
C14_AlwaysCompressedText ==
  (pc = "observe" /\ QueryDone /\ Len(queryResult.data) > 0) =>
     StartsWithAt(resultString, 1, "Query result (analysed and compressed):\n")

\* C14 (amended): a run_sql call whose query gives no error and no rows
\* gets the empty-result guidance as observation, with no compression step
\* and no compression request; one that gives rows gets a compression step
\* and the accumulator is started on the batches of the whole result (its
\* first request carries the first batch and no prior context); when the
\* accumulator returns, after the last batch, its text is the observation,
\* and any other observation of such a call is the fallback for a result
\* that cannot be serialized.
C14_CompressionIffRows == []C14_Observed /\ [][C14_Step]_vars

C14_Witness ==
  /\ pc = "observe" /\ QueryDone /\ Len(queryResult.data) > 0
  /\ resultString = "Query result (analysed and compressed):\nTotal: 3 rows."
  /\ batchIndex = 3 /\ compressCalls = 2

(***************************************************************************)
(* C15                                                                     *)
(***************************************************************************)
\* the current call ran its query and the engine reported an error
QueryFailed == resultData.kind = "query" /\ queryResult.error # ""

\* C15 (as stated): the observation of a run_sql call whose query failed is
\* the engine's error message itself.
C15_MessageVerbatim ==
  (pc = "observe" /\ QueryFailed) => resultString = queryResult.error

C15_Step ==
  /\ (SqlDue /\ queryResult'.error # "") =>
       /\ pc' = "observe" /\ outcome' = outcome
       /\ steps' = steps /\ compressCalls' = compressCalls /\ inflight' = <<>>
  /\ (pc = "observe" /\ QueryFailed) =>
       /\ Len(messages') = Len(messages) + 1
       /\ messages'[Len(messages')].role = "tool"
       /\ messages'[Len(messages')].content = "SQL execution error: " \o queryResult.error
       /\ messages'[Len(messages')].tool_call_id = toolCallsBuffer[tcIdx].id
       /\ Len(steps') = Len(steps) + 1
       /\ steps'[Len(steps')].type = "observation"
       /\ steps'[Len(steps')].content = "SQL execution error: " \o queryResult.error
       /\ Advances /\ outcome' = outcome
  /\ (pc = "loop" /\ iteration < MAX_ITERATIONS) => pc' = "stream" /\ requests' = requests + 1

\* C15 (amended): the observation of a run_sql call whose query failed is
\* the fixed label "SQL execution error: " followed by the error message the
\* engine boundary reports; no compression step or request is made for it,
\* the observation step and the tool message are appended, and control goes
\* to the next call of the turn or to the loop head, from where the next
\* iteration starts.
C15_LabelledMessage ==
  /\ []((pc = "observe" /\ QueryFailed) =>
          /\ resultString = "SQL execution error: " \o queryResult.error
          /\ queryResult.error \in {"Parse error", "Cannot read properties of undefined"}
          /\ steps[Len(steps)].type = "action")
  /\ [][C15_Step]_vars

C15_Witness ==
  /\ pc = "stream" /\ iteration = 2 /\ compressCalls = 0
  /\ messages[Len(messages)].role = "tool"
  /\ messages[Len(messages)].content = "SQL execution error: Parse error"

(***************************************************************************)
(* C16                                                                     *)
(***************************************************************************)
\* the accumulator throws in this step: the batch it turns to cannot be
\* serialized
AccumulatorThrows ==
  \/ /\ SqlDue /\ queryResult'.error = "" /\ Len(queryResult'.data) > 0
     /\ ~CanStringify(Batches(queryResult'.data,
                              calculateAdaptiveBatchSize(queryResult'.data))[1])
  \/ /\ pc = "batch" /\ batchIndex < Len(FoldBatches)
     /\ ~CanStringify(FoldBatches[batchIndex + 1])

\* C16 (as stated): when the accumulator throws, the observation of the call
\* is made of the first min(50, n) rows of the result, and the session goes
\* on to the observation step and the tool message of the call.
C16_FallbackContinues ==
  [][AccumulatorThrows =>
       /\ pc' = "observe" /\ outcome' = outcome
       /\ StartsWithAt(resultString', 1, "Query result (compression failed")]_vars

(***************************************************************************)
(* C17                                                                     *)
(***************************************************************************)
\* C17 (as stated): no failure of a dispatched tool call ends the session:
\* from the parsing of its arguments to its observation, no step of the
\* dispatcher reaches the catch block of the iteration.
C17_ToolFailuresAbsorbed ==
  [][(pc \in {"parse", "invoke", "batch", "observe"}) => (outcome' # "error")]_vars

(***************************************************************************)
(* C18                                                                     *)
(***************************************************************************)
\* C18 (as stated): the raw marker of a failed batch stays visible: when a
\* later batch settles, the marker is still in the accumulator, which
\* becomes the observation, or in the content of a step.
C18_FailedBatchStaysVisible ==
  [][(pc = "batch" /\ Includes(accumulatedResult, " Raw]: ")) =>
       \/ Includes(accumulatedResult', " Raw]: ")
       \/ \E k \in DOMAIN steps' : Includes(steps'[k].content, " Raw]: ")]_vars


(***************************************************************************)
(* C19: for every result set calculateAdaptiveBatchSize returns an integer *)
(* from B_MIN to B_MAX, and for an empty result set it returns exactly     *)
(* DEFAULT_BATCH.  Checked on every size the sizer has produced, from a    *)
(* result set or from totals with one total raised.                        *)
(***************************************************************************)
C19_SizeInRange ==
  (sizer.phase \in {"sized", "raised"}) =>
     /\ sizer.size \in B_MIN..B_MAX
     /\ (sizer.phase = "sized" /\ Len(sizer.data) = 0) => (sizer.size = DEFAULT_BATCH)

\* the sizer has answered for an empty result set, and for totals beyond both norms
C19_Witness ==
  \/ sizer.phase = "sized" /\ Len(sizer.data) = 0 /\ sizer.size = DEFAULT_BATCH
  \/ /\ sizer.phase = "raised" /\ sizer.size = B_MIN
     /\ sizer.totals.fields > F_NORM * sizer.totals.count
     /\ sizer.totals.chars > L_NORM * sizer.totals.count

\* one total of the sample grew and no other total changed
OneTotalGrew ==
  /\ sizer.phase \in {"sized", "raised"} /\ sizer'.phase = "raised"
  /\ sizer'.totals.count = sizer.totals.count /\ sizer'.totals.cells = sizer.totals.cells
  /\ \E m \in {"fields", "chars", "text", "long"} :
       /\ sizer'.totals[m] > sizer.totals[m]
       /\ \A o \in {"fields", "chars", "text", "long"} \ {m} : sizer'.totals[o] = sizer.totals[o]

(***************************************************************************)
(* C20: the batch size never grows when one of the average field count,    *)
(* the average row length, the share of text cells and the share of long   *)
(* text cells grows and the other three stay as they are.                  *)
(***************************************************************************)
C20_SizeMonotone ==
  [][OneTotalGrew => (sizer'.size <= sizer.size)]_vars

\* a raised total has made the batch smaller than the one of the plain sample
C20_Witness ==
  /\ sizer.phase = "raised" /\ Len(sizer.data) > 0
  /\ sizer.size < calculateAdaptiveBatchSize(sizer.data)


\* the sanitizer has answered
Sanitized == sanitizer.phase \in {"once", "twice"}

\* the alias and every identifier of the clause body are written in brackets
FullyQuoted ==
  /\ sanitizer.alias.kind = "quoted" /\ sanitizer.literal = "" /\ sanitizer.cast = ""
  /\ sanitizer.second.kind \in {"", "quoted"}
  /\ \A k \in DOMAIN sanitizer.tokens : sanitizer.tokens[k].kind = "quoted"

(***************************************************************************)
(* C21: on a query whose alias and whose ORDER BY / GROUP BY identifiers   *)
(* are all bracket-quoted, sanitizing the sanitized query changes nothing: *)
(* sanitizeSql(sanitizeSql(q)) = sanitizeSql(q).                           *)
(***************************************************************************)
C21_Idempotent ==
  (sanitizer.phase = "twice" /\ FullyQuoted) => (sanitizer.twice = sanitizer.once)

\* a fully quoted query with a clause that the first application rewrote
C21_Witness ==
  /\ sanitizer.phase = "twice" /\ FullyQuoted
  /\ sanitizer.clause # "" /\ Len(sanitizer.tokens) > 0
  /\ sanitizer.once # sanitizer.sql /\ sanitizer.twice = sanitizer.once

\* the query with nothing but an alias
AliasOnly ==
  /\ Sanitized /\ sanitizer.literal = "" /\ sanitizer.clause = ""
  /\ sanitizer.second = NoAlias /\ sanitizer.cast = ""

(***************************************************************************)
(* C22: the alias fixtures.  A plain ASCII alias is left as it is, an      *)
(* alias of ideographs is put in brackets, and a double-quoted alias of    *)
(* ideographs with a space in it is replaced by col_1.                     *)
(***************************************************************************)
C22_AliasFixtures ==
  AliasOnly =>
     /\ (sanitizer.alias.kind = "ascii") => (sanitizer.once = "SELECT c AS total_sum FROM t")
     /\ (sanitizer.alias.kind = "cjk") => (sanitizer.once = "SELECT c AS [~@] FROM t")
     /\ (sanitizer.alias.kind = "spaced") => (sanitizer.once = "SELECT c AS col_1 FROM t")

\* s.endsWith(p)
EndsWith(s, p) == Len(s) >= Len(p) /\ SubSeq(s, Len(s) - Len(p) + 1, Len(s)) = p

\* the clause keyword as the pass writes it
ClauseKeyword(clause) == IF MatchesWordAt(clause, 1, "ORDER") THEN "ORDER BY" ELSE "GROUP BY"

\* what the pass is to make of one token, by the way the token was written
ExpectedToken(t) == IF t.kind = "cjk" THEN "[" \o t.ident \o "]" \o t.dir ELSE t.ident \o t.dir

ExpectedBody(tokens) == JoinWith([k \in 1..Len(tokens) |-> ExpectedToken(tokens[k])], ", ")

\* a query with an ORDER BY or GROUP BY clause over at least one token
ClauseQuery == Sanitized /\ sanitizer.literal = "" /\ sanitizer.clause # "" /\ Len(sanitizer.tokens) > 0

(***************************************************************************)
(* C23: in the body of an ORDER BY or GROUP BY clause a bracket-quoted     *)
(* token stays as it is, a token of ideographs, ASCII letters, digits and  *)
(* underscores with at least one ideograph is put in brackets with its     *)
(* ASC/DESC kept, and every other token stays as it is.                    *)
(***************************************************************************)
C23_ClauseTokens ==
  ClauseQuery =>
     EndsWith(sanitizer.once,
              " FROM t " \o ClauseKeyword(sanitizer.clause) \o " " \o ExpectedBody(sanitizer.tokens))

\* a clause with a wrapped token that has a direction, a quoted token and a token left alone
C23_Witness ==
  /\ ClauseQuery
  /\ \E k \in DOMAIN sanitizer.tokens : sanitizer.tokens[k].kind = "cjk" /\ sanitizer.tokens[k].dir # ""
  /\ \E k \in DOMAIN sanitizer.tokens : sanitizer.tokens[k].kind # "cjk"
  /\ Includes(sanitizer.once, "[~@] ASC")

(***************************************************************************)
(* C24: a string literal of the query that holds AS, ORDER BY or GROUP BY  *)
(* is found unchanged, character for character, in the sanitized query.    *)
(***************************************************************************)
C24_LiteralsKept ==
  (Sanitized /\ sanitizer.literal # "") => Includes(sanitizer.once, sanitizer.literal)


\* text.split("\n")
RECURSIVE SplitLines(_)
SplitLines(text) ==
  IF ~Includes(text, "\n") THEN <<text>>
  ELSE LET i == CHOOSE k \in 1..Len(text) :
                  CharAt(text, k) = "\n" /\ \A m \in 1..(k - 1) : CharAt(text, m) # "\n"
       IN <<SubSeq(text, 1, i - 1)>> \o SplitLines(SubSeq(text, i + 1, Len(text)))

\* the dispatcher is about to run get_database_schema
SchemaDue == pc = "invoke" /\ resultString = "" /\ CurrentCall.name = "get_database_schema"

\* line carries the identifier, the source label if there is one, the row
\* count and the column list of table t
LineDescribes(line, t) ==
  /\ Includes(line, "Table_SQL_ID: " \o t.tableName \o " ")
  /\ IF t.originalName # ""
     THEN Includes(line, "(Source_File: " \o t.originalName \o ")")
     ELSE ~Includes(line, "Source_File")
  /\ Includes(line, "Rows: " \o ToString(t.rowCount))
  /\ EndsWith(line, "Columns: " \o JoinWith(t.columns, ", "))

(***************************************************************************)
(* C25: get_database_schema answers with one line per table, in the order  *)
(* of the schema, each with the table's identifier, its source label when  *)
(* it has one, its row count and its columns; with no table it answers     *)
(* with the database-is-empty message; it runs no query and no model call. *)
(***************************************************************************)
C25_SchemaListing ==
  [][SchemaDue =>
       /\ (Len(schema) = 0) => (resultString' = EmptyDatabaseObservation)
       /\ (Len(schema) > 0) =>
            /\ Len(SplitLines(resultString')) = Len(schema)
            /\ \A k \in DOMAIN schema : LineDescribes(SplitLines(resultString')[k], schema[k])
       /\ engineCalls' = engineCalls /\ compressCalls' = compressCalls
       /\ requests' = requests /\ inflight' = inflight /\ pc' = "observe"]_vars

\* the listing of two tables is ready to be pushed as the observation
C25_Witness ==
  /\ pc = "observe" /\ CurrentCall.name = "get_database_schema" /\ Len(schema) = 2
  /\ Len(SplitLines(resultString)) = 2
  /\ LineDescribes(SplitLines(resultString)[2], schema[2])


\* executeSql has returned
Executed == runSql.phase \notin {"off", "input"}

(***************************************************************************)
(* C26: executeSql returns a QueryResult whatever the engine does; when    *)
(* the engine throws or returns nothing the result has a non-empty error,  *)
(* no column and no row; no result has both an error and rows.             *)
(***************************************************************************)
C26_ErrorOrData ==
  Executed =>
     /\ (runSql.engine.kind \in {"throw", "undefined"}) =>
          /\ runSql.result.error # ""
          /\ runSql.result.columns = <<>> /\ runSql.result.data = <<>>
     /\ (runSql.engine.kind = "throw" /\ runSql.engine.message # "") =>
          (runSql.result.error = runSql.engine.message)
     /\ ~(runSql.result.error # "" /\ Len(runSql.result.data) > 0)
     /\ (runSql.engine.kind = "rows") => (runSql.result.error = "" /\ runSql.result.data = runSql.engine.rows)

\* the engine threw a value without a message and executeSql returned an error
C26_Witness ==
  /\ runSql.phase = "executed" /\ runSql.engine.kind = "throw" /\ runSql.engine.message = ""
  /\ runSql.result.error = "Unknown SQL Error" /\ runSql.result.data = <<>>

\* the rounds of the run whose request has settled
SettledRounds == Len(runSql.settled)

(***************************************************************************)
(* C27: the batches are taken in index order, the prompt of a batch is     *)
(* built only after the request of the batch before it has settled, and    *)
(* its prior-context section is exactly the accumulator that batch left.   *)
(***************************************************************************)
C27_PriorIsAccumulator ==
  (runSql.phase = "batch") =>
     /\ Len(runSql.priors) = runSql.round /\ SettledRounds = runSql.round - 1
     /\ \A k \in 2..Len(runSql.priors) : runSql.priors[k] = runSql.settled[k - 1]

(***************************************************************************)
(* C28: the no-prior-context marker is in the prompt of the first batch    *)
(* only; the prompt of every later batch carries the accumulated summary,  *)
(* whatever the model returned before.                                     *)
(***************************************************************************)
C28_MarkerFirstOnly ==
  /\ (Len(runSql.priors) > 0) => (runSql.priors[1] = NoPriorMarker)
  /\ \A k \in 2..Len(runSql.priors) : runSql.priors[k] # NoPriorMarker

\* the batch size and the number of batches of the run
RunSize == calculateAdaptiveBatchSize(runSql.result.data)
RunTotal == (Len(runSql.result.data) + RunSize - 1) \div RunSize

\* the report names round k of the run's total and the batch size
ReportNames(text, k) ==
  /\ Includes(text, "round " \o ToString(k) \o "/" \o ToString(RunTotal) \o ",")
  /\ Includes(text, " " \o ToString(RunSize) \o " rows per round")

\* smartCompressData has been called
Compressing == runSql.phase \in {"batch", "observe", "catch"}

(***************************************************************************)
(* C29 as stated: the progress callback is invoked once per batch, after   *)
(* the model call of that batch has finished; while the request of round i *)
(* is awaited only the rounds before i have been reported.                 *)
(***************************************************************************)
C29_ReportedAfterRound ==
  (runSql.phase = "batch") => (Len(runSql.reports) = SettledRounds)

(***************************************************************************)
(* C29 amended: the progress callback is invoked once per batch started,   *)
(* at the head of the round, before the batch is serialised and its model  *)
(* call is made; the k-th report names round k, the number of batches and  *)
(* the batch size.                                                         *)
(***************************************************************************)
C29_ReportedBeforeCall ==
  Compressing =>
     /\ Len(runSql.reports) = Min(runSql.round, RunTotal)
     /\ (runSql.phase = "batch") => (Len(runSql.reports) = SettledRounds + 1)
     /\ \A k \in DOMAIN runSql.reports : ReportNames(runSql.reports[k], k)
     /\ (Len(runSql.log) > 0 /\ runSql.phase = "batch") =>
          (runSql.log[Len(runSql.log)].content = runSql.reports[Len(runSql.reports)])

\* the third of three rounds has been reported while its request is awaited
C29_Witness ==
  /\ runSql.phase = "batch" /\ runSql.round = 3 /\ RunTotal = 3
  /\ Len(runSql.reports) = 3 /\ SettledRounds = 2

\* the rows of the batches, in order
RECURSIVE Flatten(_)
Flatten(batches) == IF batches = <<>> THEN <<>> ELSE Head(batches) \o Flatten(Tail(batches))

\* the batches of the run
RunBatches == Batches(runSql.result.data, RunSize)

(***************************************************************************)
(* C30: the n >= 1 rows are cut into ceil(n/B) consecutive batches of the  *)
(* batch size B; every batch but the last has B rows, the last has 1..B    *)
(* rows, and the batches put together in order are the rows.               *)
(***************************************************************************)
C30_Partition ==
  (Executed /\ Len(runSql.result.data) >= 1) =>
     /\ Len(RunBatches) = RunTotal
     /\ \A k \in 1..(RunTotal - 1) : Len(RunBatches[k]) = RunSize
     /\ Len(RunBatches[RunTotal]) \in 1..RunSize
     /\ Flatten(RunBatches) = runSql.result.data
     /\ (runSql.phase = "batch") =>
          (runSql.request[1].batchJson =
             JsonOfRows(SubSeq(runSql.result.data, (runSql.round - 1) * RunSize + 1,
                               Min(runSql.round * RunSize, Len(runSql.result.data)))))
     /\ (runSql.phase = "observe" /\ CanStringify(runSql.result.data)) => (SettledRounds = RunTotal)

\* the last and shorter batch of three is awaited
C30_Witness ==
  /\ runSql.phase = "batch" /\ runSql.round = 3 /\ Len(RunBatches) = 3
  /\ Len(RunBatches[3]) < RunSize /\ Len(runSql.result.data) = MaxBatchRows


\* the text between the quotes of a quoted alias
Unquoted(text) == SubSeq(text, 2, Len(text) - 1)

\* what the alias pass is to make of alias a when n synthetic aliases are
\* already used, by the way the alias was written
ExpectedAlias(a, n) ==
  CASE a.kind = "quoted" -> a.text
    [] a.kind = "ascii" -> a.text
    [] a.kind = "stripped" -> Unquoted(a.text)
    [] a.kind = "cjk" -> "[" \o a.text \o "]"
    [] a.kind = "spaced" -> "[" \o Unquoted(a.text) \o "]"
    [] a.kind = "other" -> "col_" \o ToString(n + 1)

\* a query of one or two aliases and nothing else
AliasQuery == Sanitized /\ sanitizer.literal = "" /\ sanitizer.clause = "" /\ sanitizer.cast = ""

(***************************************************************************)
(* C35: every alias after AS is classified in a fixed order: a bracket-    *)
(* quoted alias stays; else, with one layer of quotes and brackets off, an *)
(* ASCII identifier becomes the bare identifier; else an alias with an     *)
(* ideograph is put in brackets; else it becomes col_n, n counting from 1  *)
(* in every call.                                                          *)
(***************************************************************************)
C35_AliasClasses ==
  AliasQuery =>
     LET first == ExpectedAlias(sanitizer.alias, 0)
         used == IF sanitizer.alias.kind = "other" THEN 1 ELSE 0
     IN sanitizer.once =
          "SELECT c AS " \o first
          \o (IF sanitizer.second = NoAlias THEN ""
              ELSE ", d AS " \o ExpectedAlias(sanitizer.second, used))
          \o " FROM t"

(***************************************************************************)
(* C37: the type of a CAST(<expr> AS <type>) is found unchanged in the     *)
(* sanitized query, for a parameterized type as well.                      *)
(***************************************************************************)
C37_CastTypeKept ==
  (Sanitized /\ sanitizer.cast # "") =>
     Includes(sanitizer.once, "CAST(c AS " \o sanitizer.cast \o ")")

\* the descriptor of the lowest index that received a fragment
FirstCall(buf) == buf[CHOOSE k \in 1..Len(buf) : ~buf[k].hole /\ \A j \in 1..(k - 1) : buf[j].hole]

(***************************************************************************)
(* C33: every index that received a fragment is dispatched, in ascending   *)
(* index order, also when the indices of the stream do not start at 0:     *)
(* the first dispatch of a tool turn appends the action step of the lowest *)
(* index that received a fragment.                                         *)
(***************************************************************************)
C33_EveryIndexDispatched ==
  [][(pc = "dispatch" /\ tcIdx = 1) =>
       (/\ pc' = "parse"
        /\ Len(steps') = Len(steps) + 1
        /\ steps'[Len(steps')].type = "action"
        /\ steps'[Len(steps')].toolName = FirstCall(toolCallsBuffer).name)]_vars

(***************************************************************************)
(* C36: only the last step of the log can have status streaming, and when  *)
(* runAgent has returned no step has status streaming.                     *)
(***************************************************************************)
C36_OnlyTailStreams ==
  /\ \A k \in 1..(Len(steps) - 1) : steps[k].status # "streaming"
  /\ (pc = "done") => (\A k \in 1..Len(steps) : steps[k].status # "streaming")

(***************************************************************************)
(* Observations of a run of the streaming response parser.                 *)
(***************************************************************************)
IsPrefix(a, b) == Len(a) <= Len(b) /\ SubSeq(b, 1, Len(a)) = a

\* the stream has been fed or has ended
Parsing == parser.phase \in {"stream", "ended"}

\* the tool-call fragments of the deltas, in arrival order
RECURSIVE Arrived(_)
Arrived(ds) == IF ds = <<>> THEN <<>> ELSE Head(ds).tool_calls \o Arrived(Tail(ds))

\* the name fragments received for index k, joined in arrival order
RECURSIVE NameFor(_, _)
NameFor(fs, k) ==
  IF fs = <<>> THEN ""
  ELSE (IF Head(fs).index = k THEN Head(fs).name ELSE "") \o NameFor(Tail(fs), k)

\* the argument fragments received for index k, joined in arrival order
RECURSIVE ArgumentsFor(_, _)
ArgumentsFor(fs, k) ==
  IF fs = <<>> THEN ""
  ELSE (IF Head(fs).index = k THEN Head(fs).arguments ELSE "") \o ArgumentsFor(Tail(fs), k)

IndicesOf(fs) == {fs[i].index : i \in DOMAIN fs}

\* the descriptors the stream itself produced: without the rescued call
Streamed == IF Arrived(parser.deltas) = <<>> THEN <<>> ELSE parser.toolCallsBuffer

(***************************************************************************)
(* C31: tool-call fragments are merged by index without loss or            *)
(* reordering: the name and the argument text of the descriptor at index k *)
(* are the name fragments and the argument fragments received for k,       *)
(* joined in arrival order; indices without a fragment hold no descriptor; *)
(* and from delta to delta the argument text of a descriptor is a prefix   *)
(* of its next value.                                                      *)
(***************************************************************************)
C31_FragmentsMerged ==
  /\ [](Parsing =>
          LET fs == Arrived(parser.deltas)
          IN /\ \A k \in IndicesOf(fs) :
                  /\ k + 1 <= Len(Streamed) /\ ~Streamed[k + 1].hole
                  /\ Streamed[k + 1].name = NameFor(fs, k)
                  /\ Streamed[k + 1].arguments = ArgumentsFor(fs, k)
             /\ \A p \in 1..Len(Streamed) : (p - 1 \notin IndicesOf(fs)) => Streamed[p].hole
             /\ (Streamed # <<>>) => (Len(Streamed) - 1 \in IndicesOf(fs)))
  /\ [][\A p \in 1..Len(parser.toolCallsBuffer) :
          ~parser.toolCallsBuffer[p].hole =>
             /\ p <= Len(parser'.toolCallsBuffer) /\ ~parser'.toolCallsBuffer[p].hole
             /\ IsPrefix(parser.toolCallsBuffer[p].arguments, parser'.toolCallsBuffer[p].arguments)
             /\ IsPrefix(parser.toolCallsBuffer[p].name, parser'.toolCallsBuffer[p].name)]_vars

\* two calls whose fragments arrived interleaved over two deltas
C31_Witness ==
  /\ parser.phase = "ended" /\ Len(parser.deltas) = 2
  /\ parser.deltas[1].tool_calls = <<NameHead, SecondHead>>
  /\ parser.deltas[2].tool_calls = <<SecondTail, NameTail>>
  /\ Len(parser.toolCallsBuffer) = 2
  /\ parser.toolCallsBuffer[1] = ToolCall(CallId(0), "run_sql", JsonStringify(JsonObject(TRUE, "SELECT 1")))
  /\ parser.toolCallsBuffer[2] = ToolCall(CallId(1), "get_database_schema", "{}")

\* the content fragments of the deltas, closing tokens taken out, joined in
\* arrival order
RECURSIVE CleanText(_)
CleanText(ds) == IF ds = <<>> THEN "" ELSE Head(ds).piece.clean \o CleanText(Tail(ds))

\* the deltas that carry content
RECURSIVE WithContent(_)
WithContent(ds) ==
  IF ds = <<>> THEN <<>>
  ELSE (IF Head(ds).piece.text # "" THEN <<Head(ds)>> ELSE <<>>) \o WithContent(Tail(ds))

(***************************************************************************)
(* C32: the text of the open thought step grows by prefix from update to   *)
(* update: the n-th update shows the first n content fragments, closing    *)
(* tokens taken out, joined in arrival order, and the step marked complete *)
(* holds all of them.                                                      *)
(***************************************************************************)
C32_ThoughtGrows ==
  /\ [](Parsing =>
          LET cs == WithContent(parser.deltas)
          IN /\ parser.currentThought = CleanText(parser.deltas)
             /\ Len(parser.updates) = Len(cs) + (IF parser.phase = "ended" THEN 1 ELSE 0)
             /\ \A n \in 1..Len(cs) :
                  /\ parser.updates[n][1].content = CleanText(SubSeq(cs, 1, n))
                  /\ parser.updates[n][1].status = "streaming"
             /\ \A n \in 1..(Len(parser.updates) - 1) :
                  IsPrefix(parser.updates[n][1].content, parser.updates[n + 1][1].content)
             /\ (parser.phase = "ended") =>
                  /\ parser.steps[1].content = CleanText(parser.deltas)
                  /\ parser.steps[1].status = "complete"
                  /\ parser.updates[Len(parser.updates)] = parser.steps)
  /\ [][IsPrefix(parser.steps[1].content, parser'.steps[1].content)]_vars

\* a fragment with two closing tokens inside, followed by plain text
C32_Witness ==
  /\ parser.phase = "ended" /\ Len(parser.updates) = 3
  /\ parser.updates[1][1].content = "ab"
  /\ parser.updates[2][1].content = "abThe answer is 42."
  /\ parser.steps[1].content = "abThe answer is 42."

\* texts of the content fragments that hold a pattern of the kind, in order
RECURSIVE QueriesOf(_, _)
QueriesOf(ds, kind) ==
  IF ds = <<>> THEN <<>>
  ELSE (IF Head(ds).piece.kind = kind THEN <<Head(ds).piece.query>> ELSE <<>>)
       \o QueriesOf(Tail(ds), kind)

\* what the rescue is to synthesize from the content fragments
ExpectedRescue(ds) ==
  LET quoted == QueriesOf(ds, "quoted")
      ticked == QueriesOf(ds, "backtick")
      named == \E i \in DOMAIN ds : ds[i].piece.schemaName
      marked == \E i \in DOMAIN ds : ds[i].piece.marker
  IN IF quoted # <<>> THEN <<"run_sql", JsonStringify(JsonObject(TRUE, quoted[1]))>>
     ELSE IF ticked # <<>> THEN <<"run_sql", JsonStringify(JsonObject(TRUE, ticked[1]))>>
     ELSE IF named /\ marked THEN <<"get_database_schema", "{}">>
     ELSE <<>>

\* the stream has ended without any tool-call fragment
Rescuable == parser.phase = "ended" /\ Arrived(parser.deltas) = <<>>

(***************************************************************************)
(* C34: the rescue synthesizes at most one call, by fixed priority: a      *)
(* quote-delimited run_sql pattern anywhere in the text, else a            *)
(* backtick-delimited one, else get_database_schema when the text names it *)
(* together with "()" or the word call in any case; otherwise no call,     *)
(* and a non-empty text is the final answer.                               *)
(***************************************************************************)
C34_RescuePriority ==
  Rescuable =>
     LET expected == ExpectedRescue(parser.deltas)
     IN IF expected # <<>>
        THEN /\ Len(parser.toolCallsBuffer) = 1
             /\ parser.toolCallsBuffer[1].name = expected[1]
             /\ parser.toolCallsBuffer[1].arguments = expected[2]
             /\ parser.turn = "tool" /\ parser.finalAnswer = ""
        ELSE /\ parser.toolCallsBuffer = <<>>
             /\ parser.turn = (IF parser.currentThought # "" THEN "final" ELSE "empty")
             /\ parser.finalAnswer = parser.currentThought

\* a backtick pattern precedes a quoted pattern: the quoted one is taken
C34_Witness ==
  /\ Rescuable /\ Len(parser.deltas) = 2
  /\ parser.deltas[1].piece.kind = "backtick" /\ parser.deltas[2].piece.kind = "quoted"
  /\ parser.toolCallsBuffer = <<ToolCall("manual-sql", "run_sql", JsonStringify(JsonObject(TRUE, "SELECT 1")))>>

(***************************************************************************)
(* C38: however the output is split across deltas, the finalized thought   *)
(* text holds no closing token </tool_call>.                               *)
(***************************************************************************)
C38_NoClosingToken ==
  (parser.phase = "ended") => ~Includes(parser.steps[1].content, "</tool_call>")

\* the table names of the schema list that handleSendMessage passes on
Listed == {app.tables[k].tableName : k \in DOMAIN app.tables}

\* a query on the table gives rows
Queryable(name) == executeSql(EngineSelect(app.engine, name)).error = ""

(***************************************************************************)
(* C39: after any sequence of file uploads and clear-data actions, the     *)
(* tables registered in the SQL engine are the tables of the schema list:  *)
(* no table made so far is queryable unless it is listed.                  *)
(***************************************************************************)
C39_EngineMatchesSchema ==
  (app.phase = "idle") =>
     /\ app.engine = Listed
     /\ \A n \in 1..app.made : Queryable(TableName(n)) => (TableName(n) \in Listed)

====
